---------------------------- MODULE Spec2Model ----------------------------
(***************************************************************************)
(* Verification model of ADExplorerSnapshot.py's treeview enrichment:      *)
(*   - get_parent_dn        (section_encoder_clean.py)                     *)
(*   - preprocess DN index  (__init__.py)                                  *)
(*   - build_nc_tree        (section_encoder_clean.py)                     *)
(*   - encode_section       (section_encoder_clean.py)                     *)
(*   - enrich_snapshot      (enrich.py)                                    *)
(* A string is a sequence of one-character strings, so that scanning,      *)
(* slicing, len(), endswith() and lower() are computed as the code does.   *)
(* An optional value (Python None / a value) is a sequence of length 0/1.  *)
(***************************************************************************)
EXTENDS Integers, Sequences, FiniteSets, TLC

VARIABLES
    pc,       \* position of the running operation
    dn,       \* get_parent_dn: the argument
    ret,      \* get_parent_dn: the returned value (None or Some(string))
    idx,      \* preprocess: loop index of enumerate(self.snap.objects)
    \* the snapshot and the ADExplorerSnapshot instance built on it
    objects,        \* distinguishedName attribute of each snap.objects[i]
    objectOffsets,  \* snap.objectOffsets
    dncache,        \* ades.dncache (a CaseInsensitiveDict)
    propertyDict,   \* snap.propertyDict.get('distinguishedName')
    rootdomain,     \* ades.rootdomain
    \* the files
    fs,             \* file name -> content, for the files that exist
    snapfile,       \* name of the file enrich_snapshot was started on
    run,            \* number of the enrich_snapshot run
    \* locals of enrich_snapshot
    treeview_offset,
    ncs,                  \* the naming contexts, in the order they are built
    trees,                \* trees[i]: what build_nc_tree returned for ncs[i]
    synthetic_collector,  \* keys of the dict of that name
    synthetic_objects,
    synthetic_data,
    sections,
    header,
    \* the exporters (ObjectsOutput.process, BOFHoundOutput.process)
    exporter,          \* "objects" or "bofhound"
    can_open,          \* whether codecs.open of the output file succeeds
    records,           \* snap.objects, each "ok" or "bad" (not encodable)
    wq,                \* items of the queue.Queue (0 is the None sentinel)
    unfinished_tasks,  \* wq.unfinished_tasks
    ppc,               \* position of process()
    wpc,               \* position of the write_worker thread
    produced,          \* objects put so far
    worker_data,       \* write_worker: data, the item taken from the queue
    wroteOnce,
    fh_out,            \* "none", "open" or "closed"
    fh_written,        \* what was written through fh_out
    \* the BloodHound output (processUsers, resolve_aces)
    resolve_aces_cache,  \* the lru_cache of resolve_aces: key -> the list returned
    ace_dicts,           \* the dicts resolve_aces made; a list holds their places
    writeQueue_users,    \* the users put to writeQueues["users"]
    numUsers

dnVars == <<dn, ret>>
snapVars == <<objects, objectOffsets, dncache, propertyDict, rootdomain>>
fileVars == <<fs, snapfile, run>>
treeVars == <<ncs, trees, synthetic_collector, synthetic_objects, synthetic_data>>
outVars == <<sections, header>>
runVars == <<treeview_offset, treeVars, outVars>>
exportVars == <<exporter, can_open, records, wq, unfinished_tasks, ppc, wpc,
                produced, worker_data, wroteOnce, fh_out, fh_written>>
aceVars == <<resolve_aces_cache, ace_dicts, writeQueue_users, numUsers>>
vars == <<pc, dnVars, idx, snapVars, fileVars, runVars, exportVars, aceVars>>

---------------------------------------------------------------------------
(* Bounds of the model.                                                    *)

\* longest enumerated argument of get_parent_dn
MaxDnLen == 4
\* most objects in an enumerated snapshot (preprocess)
MaxObjects == 3

---------------------------------------------------------------------------
(* Python values.                                                          *)

None == <<>>
Some(v) == <<v>>
IsNone(o) == Len(o) = 0
Val(o) == o[1]
\* Python truthiness of an optional string: None and '' are falsy
Truthy(o) == Len(o) = 1 /\ Len(o[1]) > 0

\* all sequences over S of length at most n
RECURSIVE SeqsUpTo(_, _)
SeqsUpTo(S, n) ==
    IF n = 0 THEN {<<>>}
    ELSE LET shorter == SeqsUpTo(S, n - 1)
         IN  shorter \cup {Append(s, x) : s \in {t \in shorter : Len(t) = n - 1}, x \in S}

\* s[k:] of Python, k a 0-based index with 0 <= k
PyFrom(s, k) == IF k >= Len(s) THEN <<>> ELSE SubSeq(s, k + 1, Len(s))
\* s[:k] of Python, 0 <= k
PyTo(s, k) == IF k >= Len(s) THEN s ELSE SubSeq(s, 1, k)
\* s.endswith(t)
EndsWith(s, t) == Len(t) <= Len(s) /\ PyFrom(s, Len(s) - Len(t)) = t

\* str.lower() on one character
LowerChar(c) ==
    CASE c = "A" -> "a" [] c = "B" -> "b" [] c = "C" -> "c" [] c = "D" -> "d"
      [] c = "E" -> "e" [] c = "F" -> "f" [] c = "G" -> "g" [] c = "H" -> "h"
      [] c = "I" -> "i" [] c = "J" -> "j" [] c = "K" -> "k" [] c = "L" -> "l"
      [] c = "M" -> "m" [] c = "N" -> "n" [] c = "O" -> "o" [] c = "P" -> "p"
      [] c = "Q" -> "q" [] c = "R" -> "r" [] c = "S" -> "s" [] c = "T" -> "t"
      [] c = "U" -> "u" [] c = "V" -> "v" [] c = "W" -> "w" [] c = "X" -> "x"
      [] c = "Y" -> "y" [] c = "Z" -> "z" [] OTHER -> c
Lower(s) == [i \in 1..Len(s) |-> LowerChar(s[i])]

---------------------------------------------------------------------------
(* Values of the variables an operation does not use.                      *)

NoSnapshot ==
    /\ objects = <<>> /\ objectOffsets = <<>> /\ dncache = <<>>
    /\ propertyDict = None /\ rootdomain = None
NoFiles == fs = <<>> /\ snapfile = <<>> /\ run = 0
NoExport ==
    /\ exporter = "objects" /\ can_open = TRUE /\ records = <<>>
    /\ wq = <<>> /\ unfinished_tasks = 0
    /\ ppc = "idle" /\ wpc = "idle"
    /\ produced = 0 /\ worker_data = 0 /\ wroteOnce = FALSE
    /\ fh_out = "none" /\ fh_written = <<>>
NoAces ==
    /\ resolve_aces_cache = <<>> /\ ace_dicts = <<>>
    /\ writeQueue_users = <<>> /\ numUsers = 0
NoRun ==
    /\ treeview_offset = 0
    /\ ncs = <<>> /\ trees = <<>>
    /\ synthetic_collector = {} /\ synthetic_objects = <<>> /\ synthetic_data = <<>>
    /\ sections = <<>> /\ header = None

---------------------------------------------------------------------------
(* get_parent_dn: section_encoder_clean.py lines 42-54.                    *)

\* a scan that splits at the first comma, escaped or not
RECURSIVE get_parent_dn_any_comma(_, _)
get_parent_dn_any_comma(s, i) ==
    IF ~(i < Len(s)) THEN None
    ELSE IF s[i + 1] = ","
         THEN IF i + 1 < Len(s) THEN Some(PyFrom(s, i + 1)) ELSE None
         ELSE get_parent_dn_any_comma(s, i + 1)

\* the while loop from 0-based index i on
RECURSIVE get_parent_dn_scan(_, _)
get_parent_dn_scan(s, i) ==
    IF ~(i < Len(s)) THEN None
    ELSE IF s[i + 1] = "," /\ (i = 0 \/ s[i] # "\\")
         THEN IF i + 1 < Len(s) THEN Some(PyFrom(s, i + 1)) ELSE None
         ELSE get_parent_dn_scan(s, i + 1)

get_parent_dn(s) == get_parent_dn_scan(s, 0)

\* The DN of the escaped-comma example: CN=Smith\, John,OU=Users,DC=example,DC=com
SmithDN ==
    <<"C","N","=","S","m","i","t","h","\\",","," ","J","o","h","n",",",
      "O","U","=","U","s","e","r","s",",",
      "D","C","=","e","x","a","m","p","l","e",",","D","C","=","c","o","m">>
SmithParent ==
    <<"O","U","=","U","s","e","r","s",",",
      "D","C","=","e","x","a","m","p","l","e",",","D","C","=","c","o","m">>

DnAlphabet == {"a", ",", "\\"}
DnArgs == SeqsUpTo(DnAlphabet, MaxDnLen) \cup {SmithDN, SmithParent}

InitDN ==
    /\ pc = "call"
    /\ dn \in DnArgs
    /\ ret = None
    /\ idx = 0
    /\ NoSnapshot /\ NoFiles /\ NoRun /\ NoExport /\ NoAces

CallGetParentDn ==
    /\ pc = "call"
    /\ ret' = get_parent_dn(dn)
    /\ pc' = "returned"
    /\ UNCHANGED <<dn, idx, snapVars, fileVars, exportVars, aceVars, runVars>>

\* the caller's walk: current = get_parent_dn(current)
WalkUp ==
    /\ pc = "returned"
    /\ Truthy(ret)
    /\ dn' = Val(ret)
    /\ ret' = get_parent_dn(Val(ret))
    /\ UNCHANGED <<pc, idx, snapVars, fileVars, exportVars, aceVars, runVars>>

NextDN == CallGetParentDn \/ WalkUp
SpecDN == InitDN /\ [][NextDN]_vars

---------------------------------------------------------------------------
(* self.dncache: a requests CaseInsensitiveDict, kept as the list of its   *)
(* items [key, val] in insertion order; keys are compared after lower().   *)

CIIndex(d, k) == {i \in 1..Len(d) : Lower(d[i].key) = Lower(k)}
CIHas(d, k) == CIIndex(d, k) # {}
CIGet(d, k) == d[CHOOSE i \in CIIndex(d, k) : TRUE].val
\* d[k] = v: an existing entry keeps its place and takes the new key and value
CISet(d, k, v) ==
    IF CIHas(d, k)
    THEN [d EXCEPT ![CHOOSE i \in CIIndex(d, k) : TRUE] = [key |-> k, val |-> v]]
    ELSE Append(d, [key |-> k, val |-> v])

\* the DN-cache statement of the loop body: self.dncache[distinguishedName] = idx
CacheDN(d, k, v) == CISet(d, k, v)

---------------------------------------------------------------------------
(* ADExplorerSnapshot.preprocess: __init__.py lines 78-89 (the DN cache).  *)

\* distinguishedName attribute values of the enumerated snapshots
IdxAttrs ==
    { None, Some(<<>>),
      Some(<<"a", ",", "r">>), Some(<<"A", ",", "r">>), Some(<<"b", ",", "r">>) }

InitIdx ==
    /\ pc = "scan"
    /\ objects \in SeqsUpTo(IdxAttrs, MaxObjects)
    /\ idx = 0
    /\ dncache = <<>>
    /\ objectOffsets = <<>> /\ propertyDict = None /\ rootdomain = None
    /\ dn = <<>> /\ ret = None
    /\ NoFiles /\ NoRun /\ NoExport /\ NoAces

\* one iteration of: for idx,obj in enumerate(self.snap.objects)
PreprocessObject ==
    /\ pc = "scan"
    /\ idx < Len(objects)
    /\ LET distinguishedName == objects[idx + 1]
       IN  dncache' = IF Truthy(distinguishedName)
                      THEN CacheDN(dncache, Val(distinguishedName), idx)
                      ELSE dncache
    /\ idx' = idx + 1
    /\ UNCHANGED <<pc, objects, objectOffsets, propertyDict, rootdomain, dnVars, fileVars, exportVars, aceVars, runVars>>

\* the loop is exhausted; preprocess returns (no statement of it raises)
PreprocessDone ==
    /\ pc = "scan"
    /\ idx = Len(objects)
    /\ pc' = "done"
    /\ UNCHANGED <<idx, snapVars, dnVars, fileVars, exportVars, aceVars, runVars>>

NextIdx == PreprocessObject \/ PreprocessDone
SpecIdx == InitIdx /\ [][NextIdx]_vars

---------------------------------------------------------------------------
(* build_nc_tree: section_encoder_clean.py lines 12-107.                   *)
(* A naming context is [root, excl]; its membership predicate is the       *)
(* lambda enrich_snapshot passes: dn.endswith(root) and not                *)
(* dn.endswith(e) for every excluded root e.                               *)
(* dn_to_info is the list of its values in insertion order; children_map   *)
(* is the list of its (parent, child) appends in the order they are made.  *)

nc_filter(nc, d) ==
    EndsWith(d, nc.root) /\ \A e \in nc.excl : ~EndsWith(d, e)

\* dn in dn_to_info (a plain dict: keys are compared exactly)
InInfo(info, d) == \E i \in 1..Len(info) : info[i].dn = d
InfoOf(info, d) == info[CHOOSE i \in 1..Len(info) : info[i].dn = d]

\* lines 29-35: the real objects of the cache that pass the filter
RECURSIVE RealInfo(_, _, _, _)
RealInfo(nc, cache, offsets, i) ==
    IF i > Len(cache) THEN <<>>
    ELSE LET rest == RealInfo(nc, cache, offsets, i + 1)
         IN  IF nc_filter(nc, cache[i].key)
             THEN <<[dn |-> cache[i].key,
                     obj_idx |-> cache[i].val,
                     obj_offset |-> offsets[cache[i].val + 1]]>> \o rest
             ELSE rest

\* a placeholder entry that is not reported to synthetic_collector
AddSyntheticUncollected(st, current) ==
    [st EXCEPT
        !.info = Append(st.info, [dn |-> current,
                                  obj_idx |-> st.next_synthetic_idx,
                                  obj_offset |-> 0]),
        !.newly_created = Append(st.newly_created, current),
        !.next_synthetic_idx = st.next_synthetic_idx - 1]

\* lines 70-82: the placeholder entry made for a missing ancestor
AddSynthetic(st, current) ==
    [st EXCEPT
        !.collector = st.collector \cup {current},
        !.info = Append(st.info, [dn |-> current,
                                  obj_idx |-> st.next_synthetic_idx,
                                  obj_offset |-> 0]),
        !.newly_created = Append(st.newly_created, current),
        !.next_synthetic_idx = st.next_synthetic_idx - 1]

\* lines 69-85: while current and current not in dn_to_info
RECURSIVE WalkAncestors(_, _, _)
WalkAncestors(nc, st, current) ==
    IF ~Truthy(current) \/ InInfo(st.info, Val(current)) THEN st
    ELSE LET st1 == IF nc_filter(nc, Val(current))
                    THEN AddSynthetic(st, Val(current)) ELSE st
             up == get_parent_dn(Val(current))
         IN  IF up = Some(nc.root) THEN st1
             ELSE WalkAncestors(nc, st1, up)

\* lines 61-89: one iteration of the main loop, for the real DN d
LinkReal(nc, st, d) ==
    IF d = nc.root THEN st
    ELSE LET parent == get_parent_dn(d)
         IN  IF ~Truthy(parent) THEN st
             ELSE LET st1 == WalkAncestors(nc, st, parent)
                  IN  IF InInfo(st1.info, Val(parent))
                      THEN [st1 EXCEPT !.edges = Append(st1.edges, <<Val(parent), d>>)]
                      ELSE st1

RECURSIVE MainLoop(_, _, _, _)
MainLoop(nc, st, keys, i) ==
    IF i > Len(keys) THEN st
    ELSE MainLoop(nc, LinkReal(nc, st, keys[i]), keys, i + 1)

\* lines 92-95: the synthetic DNs are appended to their parents' children
RECURSIVE LinkSynthetics(_, _)
LinkSynthetics(st, i) ==
    IF i > Len(st.newly_created) THEN st
    ELSE LET d == st.newly_created[i]
             parent == get_parent_dn(d)
             st1 == IF Truthy(parent) /\ InInfo(st.info, Val(parent))
                    THEN [st EXCEPT !.edges = Append(st.edges, <<Val(parent), d>>)]
                    ELSE st
         IN  LinkSynthetics(st1, i + 1)

\* line 97: min(dn_to_info.keys(), key=len), the first of the shortest keys
RootDn(info) ==
    info[CHOOSE i \in 1..Len(info) :
            /\ \A j \in 1..Len(info) : Len(info[i].dn) <= Len(info[j].dn)
            /\ \A j \in 1..(i - 1) : Len(info[j].dn) > Len(info[i].dn)].dn

\* children_map.get(dn, [])
RECURSIVE ChildDns(_, _, _)
ChildDns(edges, d, i) ==
    IF i > Len(edges) THEN <<>>
    ELSE IF edges[i][1] = d THEN <<edges[i][2]>> \o ChildDns(edges, d, i + 1)
         ELSE ChildDns(edges, d, i + 1)

\* lines 99-105
RECURSIVE build_node(_, _, _)
build_node(info, edges, d) ==
    LET child_dns == ChildDns(edges, d, 1)
        me == InfoOf(info, d)
    IN  [dn |-> me.dn, obj_idx |-> me.obj_idx, obj_offset |-> me.obj_offset,
         children |-> [k \in 1..Len(child_dns) |-> build_node(info, edges, child_dns[k])]]

\* the state of the function after its loops
BuildState(nc, cache, offsets, collector) ==
    LET real == RealInfo(nc, cache, offsets, 1)
        st0 == [info |-> real, edges |-> <<>>, next_synthetic_idx |-> -1,
                newly_created |-> <<>>, collector |-> collector]
        st1 == MainLoop(nc, st0, [k \in 1..Len(real) |-> real[k].dn], 1)
    IN  LinkSynthetics(st1, 1)

\* build_nc_tree: [tree |-> None or Some(root node), collector |-> the
\* synthetic_collector keys after the call]
build_nc_tree(nc, cache, offsets, collector) ==
    IF Len(RealInfo(nc, cache, offsets, 1)) = 0
    THEN [tree |-> None, collector |-> collector]
    ELSE LET st == BuildState(nc, cache, offsets, collector)
         IN  [tree |-> Some(build_node(st.info, st.edges, RootDn(st.info))),
              collector |-> st.collector]

---------------------------------------------------------------------------
(* Synthetic objects: treeview/synthetic.py.                               *)
(* A record is kept by its fields; its bytes are counted by SyntheticLen.  *)

\* line 44: dn.encode('utf-16le') takes two bytes for a character of the
\* basic plane and four (a surrogate pair) for any other; "U+10000" stands
\* for one character outside the basic plane
AstralChars == {"U+10000"}
Utf16Units(c) == IF c \in AstralChars THEN 2 ELSE 1
RECURSIVE Utf16Len(_)
Utf16Len(d) == IF Len(d) = 0 THEN 0 ELSE Utf16Units(Head(d)) + Utf16Len(Tail(d))

\* create_synthetic_object with an obj_size that leaves out the terminator
create_synthetic_object_short(d, dn_prop_idx) ==
    LET table_size == 1
        attr_data_start == 8 + (table_size * 8)
        attr_data_len == 4 + 4 + (2 * Utf16Len(d))
    IN  [k |-> "synthetic",
         objSize |-> 8 + (table_size * 8) + attr_data_len,
         tableSize |-> table_size,
         attrIndex |-> dn_prop_idx,
         attrOffset |-> attr_data_start,
         numValues |-> 1,
         valueOffset |-> 8,
         text |-> d]

\* lines 12-69: create_synthetic_object, for a schema that has the property
create_synthetic_object(d, dn_prop_idx) ==
    LET table_size == 1
        attr_data_start == 8 + (table_size * 8)
        \* numValues(4) + offset(4) + utf-16le text + 2 bytes of terminator
        attr_data_len == 4 + 4 + (2 * Utf16Len(d) + 2)
    IN  [k |-> "synthetic",
         objSize |-> 8 + (table_size * 8) + attr_data_len,
         tableSize |-> table_size,
         attrIndex |-> dn_prop_idx,
         attrOffset |-> attr_data_start,
         numValues |-> 1,
         valueOffset |-> 8,
         text |-> d]

\* len(obj_data): the bytes written for one record
SyntheticLen(rec) ==
    4 + 4 + (rec.tableSize * 8) + 4 + 4 + (2 * Utf16Len(rec.text) + 2)

\* the iteration order of missing_dns, not sorted
UnsortedOrders(S) ==
    {o \in [1..Cardinality(S) -> S] :
        \A a, b \in 1..Cardinality(S) : a # b => o[a] # o[b]}

\* sorted(missing_dns, key=len): missing_dns is a set, so DNs of one length
\* come in the set's iteration order, which is any order
LenSortedOrders(S) ==
    {o \in [1..Cardinality(S) -> S] :
        /\ \A a, b \in 1..Cardinality(S) : a # b => o[a] # o[b]
        /\ \A a, b \in 1..Cardinality(S) : a < b => Len(o[a]) <= Len(o[b])}

\* lines 97-107: the loop, from the k-th DN of the order on
RECURSIVE SyntheticLoop(_, _, _, _, _)
SyntheticLoop(order, k, dn_prop_idx, current_offset, current_idx) ==
    IF k > Len(order) THEN [objs |-> <<>>, data |-> <<>>]
    ELSE LET obj_data == create_synthetic_object(order[k], dn_prop_idx)
             rest == SyntheticLoop(order, k + 1, dn_prop_idx,
                                   current_offset + SyntheticLen(obj_data),
                                   current_idx + 1)
         IN  [objs |-> <<[dn |-> order[k], obj_idx |-> current_idx,
                          obj_offset |-> current_offset]>> \o rest.objs,
              data |-> <<obj_data>> \o rest.data]

\* create_synthetic_objects_data that takes a property index of 0 for a
\* missing property
create_synthetic_objects_data_falsy(order, propIdx, n, start_offset) ==
    IF Len(order) = 0 THEN [raised |-> FALSE, objs |-> <<>>, data |-> <<>>]
    ELSE IF IsNone(propIdx) \/ Val(propIdx) = 0
         THEN [raised |-> TRUE, objs |-> <<>>, data |-> <<>>]
    ELSE LET r == SyntheticLoop(order, 1, Val(propIdx), start_offset, n)
         IN  [raised |-> FALSE, objs |-> r.objs, data |-> r.data]

\* lines 72-109: create_synthetic_objects_data on the DNs in the order given;
\* propIdx is snap.propertyDict.get('distinguishedName'), n is
\* len(snap.objectOffsets). raised: the ValueError of lines 29-30.
create_synthetic_objects_data(order, propIdx, n, start_offset) ==
    IF Len(order) = 0 THEN [raised |-> FALSE, objs |-> <<>>, data |-> <<>>]
    ELSE IF IsNone(propIdx) THEN [raised |-> TRUE, objs |-> <<>>, data |-> <<>>]
    ELSE LET r == SyntheticLoop(order, 1, Val(propIdx), start_offset, n)
         IN  [raised |-> FALSE, objs |-> r.objs, data |-> r.data]

\* enrich.py lines 212-223: update_synthetics
RECURSIVE update_synthetics(_, _)
update_synthetics(node, synth) ==
    LET me == IF node.obj_idx < 0 /\ InInfo(synth, node.dn)
              THEN [node EXCEPT
                       !.obj_idx = InfoOf(synth, node.dn).obj_idx,
                       !.obj_offset = InfoOf(synth, node.dn).obj_offset]
              ELSE node
    IN  [me EXCEPT !.children =
            [k \in 1..Len(node.children) |->
                update_synthetics(node.children[k], synth)]]

---------------------------------------------------------------------------
(* encode_section: section_encoder_clean.py lines 110-229.                 *)
(* The section is kept as its sequence of little-endian 32-bit words; a    *)
(* uint64 field is its low word followed by its high word.                 *)

\* TLC's integers are 32-bit: a uint64 is split through its 16-bit limbs
TwoTo16 == 65536
Lo32(v) == ((v \div TwoTo16) % TwoTo16) * TwoTo16 + (v % TwoTo16)
Hi32(v) == (v \div TwoTo16) \div TwoTo16
U64Words(v) == <<Lo32(v), Hi32(v)>>

\* lines 123-127
RECURSIVE flatten(_)
RECURSIVE FlattenAll(_, _)
\* a flattening that lists a node after its descendants
flattenChildrenFirst(node) == FlattenAll(node.children, 1) \o <<node>>
flatten(node) == <<node>> \o FlattenAll(node.children, 1)
FlattenAll(nodes, k) ==
    IF k > Len(nodes) THEN <<>>
    ELSE flatten(nodes[k]) \o FlattenAll(nodes, k + 1)

\* lines 135-144: the obj_idx of the children stored inline only
RECURSIVE mark_inline_leaves(_)
mark_inline_leaves(node) ==
    UNION { IF Len(node.children[k].children) = 0
            THEN {node.children[k].obj_idx}
            ELSE mark_inline_leaves(node.children[k]) :
            k \in 1..Len(node.children) }

\* lines 175-181: the children with, and without, children of their own
RECURSIVE SelectChildren(_, _, _)
SelectChildren(children, k, withKids) ==
    IF k > Len(children) THEN <<>>
    ELSE LET rest == SelectChildren(children, k + 1, withKids)
         IN  IF (Len(children[k].children) > 0) = withKids
             THEN <<children[k]>> \o rest ELSE rest

\* an entry size that counts one word for an inline child offset
EntrySizeLeafOneWord(nWith, nWithout) == 4 + nWith + nWithout

\* line 184, in 4-byte words
EntrySize(nWith, nWithout) == 4 + nWith + nWithout * 2

\* lines 154-189 (PASS 2): positions of the entries, from the k-th node on
RECURSIVE LayoutPass(_, _, _, _)
\* PASS 2 without the ValueError of lines 168-172
LayoutPassNoRaise(all_nodes, inline_only, k, st) ==
    IF k > Len(all_nodes) \/ st.raised THEN st
    ELSE LET node == all_nodes[k]
         IN  IF node.obj_idx \in inline_only
             THEN LayoutPass(all_nodes, inline_only, k + 1, st)
             ELSE LET w == SelectChildren(node.children, 1, TRUE)
                      wo == SelectChildren(node.children, 1, FALSE)
                  IN  LayoutPass(all_nodes, inline_only, k + 1,
                        [st EXCEPT
                           !.node_word_positions =
                               (node.obj_idx :> st.current_word_pos) @@ @,
                           !.node_metadata = (node.obj_idx :> <<w, wo>>) @@ @,
                           !.current_word_pos = @ + EntrySize(Len(w), Len(wo))])

LayoutPass(all_nodes, inline_only, k, st) ==
    IF k > Len(all_nodes) \/ st.raised THEN st
    ELSE LET node == all_nodes[k]
         IN  IF node.obj_idx \in inline_only
             THEN LayoutPass(all_nodes, inline_only, k + 1, st)
             ELSE IF Len(node.children) = 0
             THEN [st EXCEPT !.raised = TRUE]
             ELSE LET w == SelectChildren(node.children, 1, TRUE)
                      wo == SelectChildren(node.children, 1, FALSE)
                  IN  LayoutPass(all_nodes, inline_only, k + 1,
                        [st EXCEPT
                           !.node_word_positions =
                               (node.obj_idx :> st.current_word_pos) @@ @,
                           !.node_metadata = (node.obj_idx :> <<w, wo>>) @@ @,
                           !.current_word_pos = @ + EntrySize(Len(w), Len(wo))])

\* a relative offset left in words
RelativeWordOffset(child_word_pos, word_pos) == child_word_pos - word_pos

\* line 219: relative_byte_offset
RelativeOffset(child_word_pos, word_pos) == (child_word_pos - word_pos) * 4

\* lines 216-220
ChildOffsets(entries_with_children, positions, word_pos) ==
    [k \in 1..Len(entries_with_children) |->
        RelativeOffset(positions[entries_with_children[k].obj_idx], word_pos)]

\* lines 223-225, each uint64 as two words
RECURSIVE InlineWords(_, _)
InlineWords(entries_without_children, k) ==
    IF k > Len(entries_without_children) THEN <<>>
    ELSE U64Words(entries_without_children[k].obj_offset)
            \o InlineWords(entries_without_children, k + 1)

\* an entry whose two counts are written in each other's field
ParentNodeWordsSwapped(node, meta, positions, word_pos) ==
    U64Words(node.obj_offset) \o <<Len(meta[2]), Len(meta[1])>>
        \o ChildOffsets(meta[1], positions, word_pos)
        \o InlineWords(meta[2], 1)

\* lines 210-227: parent.dumps() of the ParentNode of treeview/structure.py
ParentNodeWords(node, meta, positions, word_pos) ==
    U64Words(node.obj_offset) \o <<Len(meta[1]), Len(meta[2])>>
        \o ChildOffsets(meta[1], positions, word_pos)
        \o InlineWords(meta[2], 1)

\* output.seek(word_pos * 4); output.write(words)
WriteWords(out, word_pos, words) ==
    LET n == IF word_pos + Len(words) > Len(out)
             THEN word_pos + Len(words) ELSE Len(out)
    IN  [j \in 1..n |->
            IF j > word_pos /\ j <= word_pos + Len(words) THEN words[j - word_pos]
            ELSE IF j <= Len(out) THEN out[j] ELSE 0]

\* lines 195-227 (PASS 3), from the k-th node on
RECURSIVE WritePass(_, _, _, _, _)
WritePass(all_nodes, inline_only, st, k, out) ==
    IF k > Len(all_nodes) THEN out
    ELSE LET node == all_nodes[k]
         IN  IF node.obj_idx \in inline_only
             THEN WritePass(all_nodes, inline_only, st, k + 1, out)
             ELSE LET word_pos == st.node_word_positions[node.obj_idx]
                      words == ParentNodeWords(node, st.node_metadata[node.obj_idx],
                                               st.node_word_positions, word_pos)
                  IN  WritePass(all_nodes, inline_only, st, k + 1,
                                WriteWords(out, word_pos, words))

\* the state of the layout pass for a tree
Layout(tree) ==
    LayoutPass(flatten(tree), mark_inline_leaves(tree), 1,
               [node_word_positions |-> <<>>, node_metadata |-> <<>>,
                current_word_pos |-> 0, raised |-> FALSE])

\* encode_section: raised is the ValueError of line 172
encode_section(tree) ==
    LET st == Layout(tree)
    IN  IF st.raised THEN [raised |-> TRUE, words |-> <<>>]
        ELSE [raised |-> FALSE,
              words |-> WritePass(flatten(tree), mark_inline_leaves(tree), st, 1,
                                  [j \in 1..st.current_word_pos |-> 0])]

---------------------------------------------------------------------------
(* enrich_snapshot, the stages after the naming contexts are known:        *)
(* enrich.py lines 172-282.  A naming context is                           *)
(* [name, root, excl, required]; Domain, Configuration and Schema are      *)
(* required, the DNS zones are optional.                                   *)

\* the whole pass of preprocess over the objects, from 0-based index i on
RECURSIVE PreprocessFrom(_, _, _)
PreprocessFrom(objs, i, cache) ==
    IF i >= Len(objs) THEN cache
    ELSE PreprocessFrom(objs, i + 1,
            IF Truthy(objs[i + 1]) THEN CacheDN(cache, Val(objs[i + 1]), i)
            ELSE cache)

\* lines 176-193: the calls of build_nc_tree, sharing synthetic_collector
RECURSIVE BuildAll(_, _, _, _, _)
BuildAll(ncList, k, cache, offsets, collector) ==
    IF k > Len(ncList) THEN [trees |-> <<>>, collector |-> collector]
    ELSE LET r == build_nc_tree(ncList[k], cache, offsets, collector)
             rest == BuildAll(ncList, k + 1, cache, offsets, r.collector)
         IN  [trees |-> <<r.tree>> \o rest.trees, collector |-> rest.collector]

BuildTrees ==
    /\ pc = "build"
    /\ LET r == BuildAll(ncs, 1, dncache, objectOffsets, {})
       IN  /\ trees' = r.trees
           /\ synthetic_collector' = r.collector
    /\ pc' = "synthesize"
    /\ UNCHANGED <<dnVars, idx, snapVars, fileVars, exportVars, aceVars, treeview_offset, ncs,
                   synthetic_objects, synthetic_data, outVars>>

\* lines 226-232: update_synthetics is called on the three required trees
\* whatever they are, and on an optional tree that was built
UpdateRaises(ncList, ts) ==
    \E k \in 1..Len(ncList) : ncList[k].required /\ IsNone(ts[k])
UpdateAll(ts, synth) ==
    [k \in 1..Len(ts) |->
        IF IsNone(ts[k]) THEN None ELSE Some(update_synthetics(Val(ts[k]), synth))]

\* lines 195-232
CreateSynthetics ==
    /\ pc = "synthesize"
    /\ IF synthetic_collector = {}
       THEN /\ pc' = "encode"
            /\ UNCHANGED <<trees, synthetic_objects, synthetic_data>>
       ELSE \E order \in LenSortedOrders(synthetic_collector) :
              LET r == create_synthetic_objects_data(order, propertyDict,
                            Len(objectOffsets), treeview_offset)
              IN  IF r.raised \/ UpdateRaises(ncs, trees)
                  THEN /\ pc' = "raised"
                       /\ synthetic_objects' = r.objs
                       /\ synthetic_data' = r.data
                       /\ UNCHANGED trees
                  ELSE /\ pc' = "encode"
                       /\ synthetic_objects' = r.objs
                       /\ synthetic_data' = r.data
                       /\ trees' = UpdateAll(trees, r.objs)
    /\ UNCHANGED <<dnVars, idx, snapVars, fileVars, exportVars, aceVars, treeview_offset, ncs,
                   synthetic_collector, outVars>>

\* lines 240-251: section_names, as the positions in ncs of the trees encoded
RECURSIVE SectionNames(_, _, _)
SectionNames(ncList, ts, k) ==
    IF k > Len(ncList) THEN <<>>
    ELSE IF ncList[k].required \/ ~IsNone(ts[k])
         THEN <<k>> \o SectionNames(ncList, ts, k + 1)
         ELSE SectionNames(ncList, ts, k + 1)

\* lines 270-274, from the k-th section on
RECURSIVE SectionOffsets(_, _, _)
SectionOffsets(secs, k, current_offset) ==
    IF k > Len(secs) THEN <<>>
    ELSE <<current_offset>>
            \o SectionOffsets(secs, k + 1, current_offset + 4 * Len(secs[k]))

\* a header size fixed at the 64 bytes check_treeview_exists counts
HeaderSize64(num_ncs) == 64

\* line 266
HeaderSize(num_ncs) == 16 + (num_ncs * 4)

\* lines 276-282: the TreeviewHeader of treeview/structure.py
TreeviewHeader(secs) ==
    [k |-> "tvheader", magic |-> "FE", num_NCs |-> Len(secs), reserved |-> 0,
     section_offsets |-> SectionOffsets(secs, 1, HeaderSize(Len(secs)))]

\* EncodeSections without the return of lines 234-237: the trees that were
\* built are encoded
EncodeSectionsOfBuilt ==
    /\ pc = "encode"
    /\ LET names == SelectSeq(SectionNames(ncs, trees, 1),
                              LAMBDA k : ~IsNone(trees[k]))
           enc == [j \in 1..Len(names) |-> encode_section(Val(trees[names[j]]))]
       IN  IF \E j \in 1..Len(enc) : enc[j].raised
           THEN /\ pc' = "raised"
                /\ UNCHANGED outVars
           ELSE /\ sections' = [j \in 1..Len(enc) |-> enc[j].words]
                /\ header' = Some(TreeviewHeader([j \in 1..Len(enc) |-> enc[j].words]))
                /\ pc' = "write"
    /\ UNCHANGED <<dnVars, idx, snapVars, fileVars, exportVars, aceVars, treeview_offset, treeVars>>

\* EncodeSections that leaves out a section whose encoding raised and goes
\* on to the write
EncodeSectionsSkipRaised ==
    /\ pc = "encode"
    /\ IF \E k \in 1..Len(ncs) : ncs[k].required /\ IsNone(trees[k])
       THEN /\ pc' = "failed"
            /\ UNCHANGED outVars
       ELSE LET names == SectionNames(ncs, trees, 1)
                kept == SelectSeq(names,
                                  LAMBDA k : ~encode_section(Val(trees[k])).raised)
                enc == [j \in 1..Len(kept) |-> encode_section(Val(trees[kept[j]]))]
            IN  /\ sections' = [j \in 1..Len(enc) |-> enc[j].words]
                /\ header' = Some(TreeviewHeader([j \in 1..Len(enc) |-> enc[j].words]))
                /\ pc' = "write"
    /\ UNCHANGED <<dnVars, idx, snapVars, fileVars, exportVars, aceVars, treeview_offset, treeVars>>

\* lines 234-282
EncodeSections ==
    /\ pc = "encode"
    /\ IF \E k \in 1..Len(ncs) : ncs[k].required /\ IsNone(trees[k])
       THEN /\ pc' = "failed"
            /\ UNCHANGED outVars
       ELSE LET names == SectionNames(ncs, trees, 1)
                enc == [j \in 1..Len(names) |-> encode_section(Val(trees[names[j]]))]
            IN  IF \E j \in 1..Len(enc) : enc[j].raised
                THEN /\ pc' = "raised"
                     /\ UNCHANGED outVars
                ELSE /\ sections' = [j \in 1..Len(enc) |-> enc[j].words]
                     /\ header' = Some(TreeviewHeader([j \in 1..Len(enc) |-> enc[j].words]))
                     /\ pc' = "write"
    /\ UNCHANGED <<dnVars, idx, snapVars, fileVars, exportVars, aceVars, treeview_offset, treeVars>>

---------------------------------------------------------------------------
(* One naming context on enumerated DN indexes.                            *)

\* the bytes of the fixed header: the treeviewOffset field is its last field
TreeviewOffsetField == 1078
HeaderLen == TreeviewOffsetField + 8

\* size of the record of a real object with the DN d
ObjectSize(d) == 26 + 2 * Utf16Len(d)

\* offsets of records laid out one after the other from offset `at` on
RECURSIVE LayOut(_, _, _)
LayOut(objs, k, at) ==
    IF k > Len(objs) THEN <<>>
    ELSE <<at>> \o LayOut(objs, k + 1,
                          at + ObjectSize(IF IsNone(objs[k]) THEN <<>> ELSE Val(objs[k])))
EndOfObjects(objs) ==
    IF Len(objs) = 0 THEN HeaderLen
    ELSE LayOut(objs, 1, HeaderLen)[Len(objs)]
            + ObjectSize(IF IsNone(objs[Len(objs)]) THEN <<>> ELSE Val(objs[Len(objs)]))

\* most objects of an enumerated DN index
MaxTreeObjects == 4

TreeRoot == <<"r">>
TreeUniverse ==
    { <<"r">>,
      <<"a", ",", "r">>,
      <<"a", ",", "a", ",", "r">>,
      <<"a", ",", "b", ",", "r">>,
      <<"b", ",", "a", ",", "r">>,
      <<"a", ",", "b", ",", "a", ",", "r">>,
      <<"a", "\\", ",", "b", ",", "r">>,
      <<"a", ",", "q">> }

\* directory DNs are unique: no two objects share a case-folded DN
DistinctDNs(objs) ==
    \A a, b \in 1..Len(objs) : a # b => Lower(Val(objs[a])) # Lower(Val(objs[b]))

InitTree ==
    /\ pc = "build"
    /\ objects \in {o \in SeqsUpTo({Some(d) : d \in TreeUniverse}, MaxTreeObjects) :
                        DistinctDNs(o)}
    /\ objectOffsets = LayOut(objects, 1, HeaderLen)
    /\ dncache = PreprocessFrom(objects, 0, <<>>)
    /\ propertyDict = Some(3)
    /\ rootdomain = Some(TreeRoot)
    /\ treeview_offset = EndOfObjects(objects)
    /\ ncs = <<[name |-> "NC", root |-> TreeRoot, excl |-> {}, required |-> TRUE]>>
    /\ trees = <<>>
    /\ synthetic_collector = {} /\ synthetic_objects = <<>> /\ synthetic_data = <<>>
    /\ sections = <<>> /\ header = None
    /\ dn = <<>> /\ ret = None /\ idx = 0
    /\ NoFiles /\ NoExport /\ NoAces

NextTree == BuildTrees \/ CreateSynthetics \/ EncodeSections
SpecTree == InitTree /\ [][NextTree]_vars

---------------------------------------------------------------------------
(* create_synthetic_objects_data on enumerated sets of missing DNs.        *)

\* most DNs in missing_dns
MaxMissing == 3

\* missing containers: chains of ancestors, DNs of equal length, and DNs
\* with a character outside the basic plane
MissingUniverse ==
    { <<"a", ",", "r">>,
      <<"b", ",", "r">>,
      <<"U+10000", ",", "r">>,
      <<"b", ",", "a", ",", "r">>,
      <<"c", ",", "U+10000", ",", "r">>,
      <<"c", ",", "b", ",", "a", ",", "r">> }

\* the real objects of the snapshot, by DN
RealObjects == << Some(<<"r">>), Some(<<"x", ",", "b", ",", "a", ",", "r">>) >>

InitSynth ==
    /\ pc = "synthesize"
    /\ synthetic_collector \in
           {S \in SUBSET MissingUniverse : Cardinality(S) <= MaxMissing}
    /\ propertyDict \in {None, Some(0), Some(3)}
    /\ objects \in {PyTo(RealObjects, n) : n \in 0..Len(RealObjects)}
    /\ objectOffsets = LayOut(objects, 1, HeaderLen)
    /\ treeview_offset \in {EndOfObjects(objects), EndOfObjects(objects) + 8}
    /\ dncache = <<>> /\ rootdomain = None
    /\ ncs = <<>> /\ trees = <<>>
    /\ synthetic_objects = <<>> /\ synthetic_data = <<>>
    /\ sections = <<>> /\ header = None
    /\ dn = <<>> /\ ret = None /\ idx = 0
    /\ NoFiles /\ NoExport /\ NoAces

\* enrich.py lines 196-204: the call of create_synthetic_objects_data with
\* no tree to update
NextSynth == CreateSynthetics
SpecSynth == InitSynth /\ [][NextSynth]_vars

---------------------------------------------------------------------------
(* One naming context, DC=example,DC=com, whose container OU=A is not an   *)
(* object of the snapshot.                                                 *)

ExampleRoot ==
    <<"D", "C", "=", "e", "x", "a", "m", "p", "l", "e", ",", "D", "C", "=", "c", "o", "m">>
OuA == <<"O", "U", "=", "A", ",">> \o ExampleRoot
OuB == <<"O", "U", "=", "B", ",">> \o OuA
CnX == <<"C", "N", "=", "x", ",">> \o OuB
CnY == <<"C", "N", "=", "y", ",">> \o OuB
ExampleDNs == {ExampleRoot, OuB, CnX, CnY}

\* the four objects in any order of the snapshot
InitExample ==
    /\ pc = "build"
    /\ objects \in {o \in [1..4 -> {Some(d) : d \in ExampleDNs}] : DistinctDNs(o)}
    /\ objectOffsets = LayOut(objects, 1, HeaderLen)
    /\ dncache = PreprocessFrom(objects, 0, <<>>)
    /\ propertyDict \in {Some(0), Some(3)}
    /\ rootdomain = Some(ExampleRoot)
    /\ treeview_offset = EndOfObjects(objects)
    /\ ncs = <<[name |-> "NC", root |-> ExampleRoot, excl |-> {}, required |-> TRUE]>>
    /\ trees = <<>>
    /\ synthetic_collector = {} /\ synthetic_objects = <<>> /\ synthetic_data = <<>>
    /\ sections = <<>> /\ header = None
    /\ dn = <<>> /\ ret = None /\ idx = 0
    /\ NoFiles /\ NoExport /\ NoAces

NextExample == BuildTrees \/ CreateSynthetics \/ EncodeSections
SpecExample == InitExample /\ [][NextExample]_vars

---------------------------------------------------------------------------
(* One naming context whose DNs differ in letter case.                     *)

\* DNs that spell the container a,r in two ways
CaseUniverse ==
    { <<"r">>,
      <<"a", ",", "r">>,
      <<"A", ",", "r">>,
      <<"b", ",", "a", ",", "r">>,
      <<"b", ",", "A", ",", "r">>,
      <<"c", ",", "A", ",", "r">> }

InitCase ==
    /\ pc = "build"
    /\ objects \in {o \in SeqsUpTo({Some(d) : d \in CaseUniverse}, MaxTreeObjects) :
                        DistinctDNs(o)}
    /\ objectOffsets = LayOut(objects, 1, HeaderLen)
    /\ dncache = PreprocessFrom(objects, 0, <<>>)
    /\ propertyDict = Some(3)
    /\ rootdomain = Some(TreeRoot)
    /\ treeview_offset = EndOfObjects(objects)
    /\ ncs = <<[name |-> "NC", root |-> TreeRoot, excl |-> {}, required |-> TRUE]>>
    /\ trees = <<>>
    /\ synthetic_collector = {} /\ synthetic_objects = <<>> /\ synthetic_data = <<>>
    /\ sections = <<>> /\ header = None
    /\ dn = <<>> /\ ret = None /\ idx = 0
    /\ NoFiles /\ NoExport /\ NoAces

NextCase == BuildTrees \/ CreateSynthetics \/ EncodeSections
SpecCase == InitCase /\ [][NextCase]_vars

---------------------------------------------------------------------------
(* Files.  A file is the sequence of the pieces it was written from, each  *)
(* piece standing for its bytes: the fixed header, object records,         *)
(* synthetic records, a treeview header, an encoded section, bytes of no   *)
(* known structure, or a slice [from, to) of one of these.                 *)

\* 0xFFFFFFFFFFFFFFFF, as the signed 64-bit number of the same bits
AllOnes == -1

HeaderPiece(sig, off) == [k |-> "header", sig |-> sig, treeviewOffset |-> off]
ObjectPiece(d) == [k |-> "object", dn |-> d, size |-> ObjectSize(d)]
SectionPiece(words) == [k |-> "section", words |-> words]
BytesPiece(id, n) == [k |-> "bytes", id |-> id, len |-> n]

\* len() of the bytes of a piece
PLen(p) ==
    CASE p.k = "header" -> HeaderLen
      [] p.k = "object" -> p.size
      [] p.k = "synthetic" -> SyntheticLen(p)
      [] p.k = "tvheader" -> 16 + 4 * Len(p.section_offsets)
      [] p.k = "section" -> 4 * Len(p.words)
      [] p.k = "bytes" -> p.len
      [] p.k = "part" -> p.to - p.from

\* len(data)
RECURSIVE FileLen(_)
FileLen(c) == IF Len(c) = 0 THEN 0 ELSE PLen(Head(c)) + FileLen(Tail(c))

\* the bytes [a, b) of a piece
Cut(p, a, b) ==
    IF p.k = "part"
    THEN [k |-> "part", of |-> p.of, from |-> p.from + a, to |-> p.from + b]
    ELSE [k |-> "part", of |-> p, from |-> a, to |-> b]

\* data[:n], for n >= 0
RECURSIVE Take(_, _)
Take(c, n) ==
    IF Len(c) = 0 \/ n <= 0 THEN <<>>
    ELSE IF PLen(Head(c)) <= n THEN <<Head(c)>> \o Take(Tail(c), n - PLen(Head(c)))
    ELSE <<Cut(Head(c), 0, n)>>

\* data[n:], for n >= 0
RECURSIVE Drop(_, _)
Drop(c, n) ==
    IF Len(c) = 0 THEN <<>>
    ELSE IF n <= 0 THEN c
    ELSE IF PLen(Head(c)) <= n THEN Drop(Tail(c), n - PLen(Head(c)))
    ELSE <<Cut(Head(c), n, PLen(Head(c)))>> \o Tail(c)

\* the piece that begins at byte `off` (0: none does), looking from the
\* k-th piece on, which begins at byte `at`
RECURSIVE PieceIndex(_, _, _, _)
PieceIndex(c, k, at, off) ==
    IF k > Len(c) \/ at > off THEN 0
    ELSE IF at = off THEN k
    ELSE PieceIndex(c, k + 1, at + PLen(c[k]), off)

\* fh.seek(off); fh.read(8), as far as it is compared with TREEVIEW_MAGIC
MagicAt(c, off) ==
    LET k == PieceIndex(c, 1, 0, off)
    IN  IF k = 0 THEN "other"
        ELSE IF c[k].k = "tvheader" THEN c[k].magic
        ELSE IF c[k].k = "part" /\ c[k].from = 0 /\ c[k].to >= 8
                /\ c[k].of.k = "tvheader"
             THEN c[k].of.magic
        ELSE "other"

\* the 32-bit words of the sections that follow, from the k-th piece on
RECURSIVE SectionWordsFrom(_, _)
SectionWordsFrom(c, k) ==
    IF k > Len(c) THEN <<>>
    ELSE IF c[k].k = "section" THEN c[k].words \o SectionWordsFrom(c, k + 1)
    ELSE <<>>

\* struct.unpack("<14I", header_data): the words after the magic, of which
\* the code uses the first five
header_words(c, off) ==
    LET k == PieceIndex(c, 1, 0, off)
    IN  <<c[k].num_NCs, c[k].reserved>> \o c[k].section_offsets
            \o SectionWordsFrom(c, k + 1)

\* check_treeview_exists without the comparison with TREEVIEW_MAGIC
check_treeview_exists_any_magic(c) ==
    LET off == c[1].treeviewOffset
        file_size == FileLen(c)
    IN  IF off = 0 \/ off = AllOnes THEN [exists |-> FALSE, offset |-> 0]
        ELSE IF file_size < off + 64 + 100 THEN [exists |-> FALSE, offset |-> off]
        ELSE IF MagicAt(c, off) = "other" THEN [exists |-> FALSE, offset |-> off]
        ELSE LET num_ncs == header_words(c, off)[1]
                 section3_offset == header_words(c, off)[5]
             IN  IF num_ncs < 1 \/ num_ncs > 10
                 THEN [exists |-> FALSE, offset |-> off]
                 ELSE IF file_size < off + 64 + section3_offset + 100
                 THEN [exists |-> FALSE, offset |-> off]
                 ELSE [exists |-> TRUE, offset |-> off]

\* enrich.py lines 15-68: check_treeview_exists
check_treeview_exists(c) ==
    LET off == c[1].treeviewOffset
        file_size == FileLen(c)
    IN  IF off = 0 \/ off = AllOnes THEN [exists |-> FALSE, offset |-> 0]
        ELSE IF file_size < off + 64 + 100 THEN [exists |-> FALSE, offset |-> off]
        ELSE IF MagicAt(c, off) # "FE" THEN [exists |-> FALSE, offset |-> off]
        ELSE LET num_ncs == header_words(c, off)[1]
                 section3_offset == header_words(c, off)[5]
             IN  IF num_ncs < 1 \/ num_ncs > 10
                 THEN [exists |-> FALSE, offset |-> off]
                 ELSE IF file_size < off + 64 + section3_offset + 100
                 THEN [exists |-> FALSE, offset |-> off]
                 ELSE [exists |-> TRUE, offset |-> off]

\* str.rfind('.'), as a 1-based position (0: no dot)
RECURSIVE RFindDot(_, _)
RFindDot(name, j) ==
    IF j = 0 THEN 0 ELSE IF name[j] = "." THEN j ELSE RFindDot(name, j - 1)

Enriched == <<".", "e", "n", "r", "i", "c", "h", "e", "d">>

\* a file name left as it is
get_output_filename_same(name) == name

\* enrich.py lines 71-91: get_output_filename on the final component of the
\* path; Path.suffix is the part from the last dot on, when that dot is
\* neither the first nor the last character of the name
get_output_filename(name) ==
    LET j == RFindDot(name, Len(name))
    IN  IF 1 < j /\ j < Len(name)
        THEN SubSeq(name, 1, j - 1) \o Enriched \o SubSeq(name, j, Len(name))
        ELSE name \o Enriched

---------------------------------------------------------------------------
(* The snapshots enrich_snapshot is run on.                                *)

\* the prefixes of lines 152-155
ConfigPrefix == <<"C", "N", "=", "C", "o", "n", "f", "i", "g", "u", "r", "a", "t", "i", "o", "n", ",">>
SchemaPrefix == <<"C", "N", "=", "S", "c", "h", "e", "m", "a", ",">>
DomainDnsPrefix == <<"D", "C", "=", "D", "o", "m", "a", "i", "n", "D", "n", "s", "Z", "o", "n", "e", "s", ",">>
ForestDnsPrefix == <<"D", "C", "=", "F", "o", "r", "e", "s", "t", "D", "n", "s", "Z", "o", "n", "e", "s", ",">>

DomainRoot == <<"D", "C", "=", "e">>
ConfigRoot == ConfigPrefix \o DomainRoot
SchemaRoot == SchemaPrefix \o ConfigRoot
DomainDnsRoot == DomainDnsPrefix \o DomainRoot
ForestDnsRoot == ForestDnsPrefix \o DomainRoot

\* the DN of the entry named by the one-letter RDN value v under parent
Cn(v, parent) == <<"C", "N", "=", v, ",">> \o parent

\* the objects of each naming context a snapshot may hold; the entry u of
\* the domain and the roots of the last shapes are missing containers
DomainShapes ==
    { <<>>,
      <<DomainRoot, Cn("u", DomainRoot)>>,
      <<DomainRoot, Cn("v", Cn("u", DomainRoot))>> }
ConfigShapes ==
    { <<>>,
      <<ConfigRoot, Cn("s", ConfigRoot)>>,
      <<Cn("s", ConfigRoot)>> }
SchemaShapes ==
    { <<>>, <<SchemaRoot, Cn("a", SchemaRoot)>> }
DomainDnsShapes ==
    { <<>>, <<DomainDnsRoot, Cn("z", DomainDnsRoot)>> }
ForestDnsShapes ==
    { <<>>, <<ForestDnsRoot, Cn("f", ForestDnsRoot)>> }

\* n entries, each the only child of the one before, below parent
RECURSIVE Chain(_, _)
Chain(n, parent) ==
    IF n = 0 THEN <<>>
    ELSE <<Cn("f", parent)>> \o Chain(n - 1, Cn("f", parent))
\* a zone deep enough for its section, with the Schema section, to be
\* longer than the 164 bytes check_treeview_exists wants after the offset
DeepForestDns == <<ForestDnsRoot>> \o Chain(8, ForestDnsRoot)

\* every combination of the shapes, and the deep zone next to a domain, a
\* complete Configuration and a Schema
SnapshotDNs ==
    { d \o c \o s \o z \o f :
        d \in DomainShapes, c \in ConfigShapes, s \in SchemaShapes,
        z \in DomainDnsShapes, f \in ForestDnsShapes }
    \cup
    { d \o <<ConfigRoot, Cn("s", ConfigRoot), SchemaRoot, Cn("a", SchemaRoot)>>
        \o z \o DeepForestDns :
        d \in DomainShapes \ {<<>>}, z \in DomainDnsShapes }
    \cup
    \* a Schema context that is its root object alone
    { d \o <<ConfigRoot, Cn("s", ConfigRoot), SchemaRoot>> :
        d \in DomainShapes \ {<<>>} }
SnapshotObjects == { [i \in 1..Len(o) |-> Some(o[i])] : o \in SnapshotDNs }

\* ades.rootdomain: the DN of the first object of class domain, if any
RootDomainOf(objs) ==
    IF \E i \in 1..Len(objs) : Val(objs[i]) = DomainRoot THEN Some(DomainRoot)
    ELSE None

\* what the snapshot file holds after its last object record: nothing, an
\* allocated placeholder, or a populated treeview of three sections
PlaceholderHeader ==
    [k |-> "tvheader", magic |-> "FF", num_NCs |-> 0, reserved |-> 0,
     section_offsets |-> <<0, 0, 0>>]
PopulatedHeader ==
    [k |-> "tvheader", magic |-> "FE", num_NCs |-> 3, reserved |-> 0,
     section_offsets |-> <<28, 52, 76>>]
\* a placeholder with the space of a treeview of three sections allocated
AllocatedHeader ==
    [k |-> "tvheader", magic |-> "FF", num_NCs |-> 3, reserved |-> 0,
     section_offsets |-> <<28, 52, 76>>]
Tails ==
    { <<>>,
      <<PlaceholderHeader, BytesPiece("placeholder", 36)>>,
      <<AllocatedHeader, BytesPiece("allocated", 400)>>,
      <<PopulatedHeader, BytesPiece("sections", 400)>> }

\* the treeviewOffset field of the header of a snapshot whose objects end
\* at byte e: unset, at the end of the objects, or further on
HeaderOffsets(e) == {0, AllOnes, e, e + 8}

\* names of snapshot files: no extension, an extension, a leading dot
InputNames == { <<"s">>, <<"s", ".", "d">>, <<".", "s">> }

\* the bytes of a snapshot file
SnapshotFile(sig, off, objs, tail) ==
    <<HeaderPiece(sig, off)>> \o [i \in 1..Len(objs) |-> ObjectPiece(Val(objs[i]))] \o tail

\* most runs of enrich_snapshot, each on the output of the one before
MaxRuns == 2

InitEnrich ==
    /\ pc = "check"
    /\ objects \in SnapshotObjects
    /\ objectOffsets = LayOut(objects, 1, HeaderLen)
    /\ dncache = <<>>
    /\ rootdomain = RootDomainOf(objects)
    /\ snapfile \in InputNames
    /\ \E sig \in {"win", "bad"}, off \in HeaderOffsets(EndOfObjects(objects)), tail \in Tails :
          /\ fs = [n \in {snapfile} |-> SnapshotFile(sig, off, objects, tail)]
          \* the schema has the distinguishedName property, at index 3; on a
          \* snapshot without treeview it may also have it at index 0 or lack it
          /\ propertyDict \in
                IF sig = "win" /\ off = 0 /\ tail = <<>> /\ snapfile = <<"s">>
                THEN {None, Some(0), Some(3)} ELSE {Some(3)}
    /\ run = 1
    /\ NoRun /\ NoExport /\ NoAces
    /\ dn = <<>> /\ ret = None /\ idx = 0

\* CheckTreeview without the return of lines 117-120
CheckTreeviewNoReturn ==
    /\ pc = "check"
    /\ LET r == check_treeview_exists(fs[snapfile])
       IN  IF r.offset # 0
           THEN pc' = "contexts" /\ treeview_offset' = r.offset
           ELSE IF Len(objectOffsets) = 0
           THEN pc' = "raised" /\ treeview_offset' = 0
           ELSE LET last_obj_offset == objectOffsets[Len(objectOffsets)]
                    last_obj_size ==
                        fs[snapfile][PieceIndex(fs[snapfile], 1, 0, last_obj_offset)].size
                IN  pc' = "contexts" /\ treeview_offset' = last_obj_offset + last_obj_size
    /\ UNCHANGED <<dnVars, idx, snapVars, fileVars, exportVars, aceVars, treeVars, outVars>>

\* lines 112-132: check_treeview_exists is called, and the offset is
\* computed when the header has none
CheckTreeview ==
    /\ pc = "check"
    /\ LET r == check_treeview_exists(fs[snapfile])
       IN  IF r.exists
           THEN pc' = "exists" /\ treeview_offset' = r.offset
           ELSE IF r.offset # 0
           THEN pc' = "contexts" /\ treeview_offset' = r.offset
           ELSE IF Len(objectOffsets) = 0
           THEN pc' = "raised" /\ treeview_offset' = 0
           ELSE LET last_obj_offset == objectOffsets[Len(objectOffsets)]
                    last_obj_size ==
                        fs[snapfile][PieceIndex(fs[snapfile], 1, 0, last_obj_offset)].size
                IN  pc' = "contexts" /\ treeview_offset' = last_obj_offset + last_obj_size
    /\ UNCHANGED <<dnVars, idx, snapVars, fileVars, exportVars, aceVars, treeVars, outVars>>

\* the naming contexts with a Configuration filter that does not leave out
\* the Schema
NamingContextsOfOverlapping(domain_root, cache) ==
    LET config_root == ConfigPrefix \o domain_root
        schema_root == SchemaPrefix \o ConfigPrefix \o domain_root
        domain_dns_zones_root == DomainDnsPrefix \o domain_root
        forest_dns_zones_root == ForestDnsPrefix \o domain_root
        has_domain_dns ==
            \E i \in 1..Len(cache) : EndsWith(cache[i].key, domain_dns_zones_root)
        has_forest_dns ==
            \E i \in 1..Len(cache) : EndsWith(cache[i].key, forest_dns_zones_root)
    IN  << [name |-> "Domain", root |-> domain_root, required |-> TRUE,
            excl |-> {config_root, domain_dns_zones_root, forest_dns_zones_root}],
           [name |-> "Configuration", root |-> config_root, required |-> TRUE,
            excl |-> {}],
           [name |-> "Schema", root |-> schema_root, required |-> TRUE, excl |-> {}] >>
        \o (IF has_domain_dns
            THEN <<[name |-> "DomainDnsZones", root |-> domain_dns_zones_root,
                    required |-> FALSE, excl |-> {}]>>
            ELSE <<>>)
        \o (IF has_forest_dns
            THEN <<[name |-> "ForestDnsZones", root |-> forest_dns_zones_root,
                    required |-> FALSE, excl |-> {}]>>
            ELSE <<>>)

\* lines 150-193: the naming contexts with their filters, in the order
\* their trees are built; a DNS zone is built only if some DN ends with it
NamingContextsOf(domain_root, cache) ==
    LET config_root == ConfigPrefix \o domain_root
        schema_root == SchemaPrefix \o ConfigPrefix \o domain_root
        domain_dns_zones_root == DomainDnsPrefix \o domain_root
        forest_dns_zones_root == ForestDnsPrefix \o domain_root
        has_domain_dns ==
            \E i \in 1..Len(cache) : EndsWith(cache[i].key, domain_dns_zones_root)
        has_forest_dns ==
            \E i \in 1..Len(cache) : EndsWith(cache[i].key, forest_dns_zones_root)
    IN  << [name |-> "Domain", root |-> domain_root, required |-> TRUE,
            excl |-> {config_root, domain_dns_zones_root, forest_dns_zones_root}],
           [name |-> "Configuration", root |-> config_root, required |-> TRUE,
            excl |-> {schema_root}],
           [name |-> "Schema", root |-> schema_root, required |-> TRUE, excl |-> {}] >>
        \o (IF has_domain_dns
            THEN <<[name |-> "DomainDnsZones", root |-> domain_dns_zones_root,
                    required |-> FALSE, excl |-> {}]>>
            ELSE <<>>)
        \o (IF has_forest_dns
            THEN <<[name |-> "ForestDnsZones", root |-> forest_dns_zones_root,
                    required |-> FALSE, excl |-> {}]>>
            ELSE <<>>)

\* lines 136-170: the DN cache is loaded and the naming contexts identified
NamingContexts ==
    /\ pc = "contexts"
    /\ dncache' = PreprocessFrom(objects, 0, <<>>)
    /\ IF ~Truthy(rootdomain)
       THEN pc' = "noroot" /\ UNCHANGED ncs
       ELSE pc' = "build" /\ ncs' = NamingContextsOf(Val(rootdomain), dncache')
    /\ UNCHANGED <<dnVars, idx, objects, objectOffsets, propertyDict, rootdomain,
                   fileVars, treeview_offset, trees, synthetic_collector,
                   synthetic_objects, synthetic_data, outVars, exportVars, aceVars>>

\* lines 288-291
FixSignature(data) == [data EXCEPT ![1].sig = "win"]
\* line 304: struct.pack_into("<Q", original_data, 0x436, value)
PackTreeviewOffset(data, value) == [data EXCEPT ![1].treeviewOffset = value]

\* lines 284-329
WriteOutput ==
    /\ pc = "write"
    /\ LET original_data == FixSignature(fs[snapfile])
           output_path == get_output_filename(snapfile)
           new_treeview_offset == treeview_offset + FileLen(synthetic_data)
           patched == IF Len(synthetic_data) > 0
                      THEN PackTreeviewOffset(original_data, new_treeview_offset)
                      ELSE original_data
           treeview == <<Val(header)>> \o [j \in 1..Len(sections) |-> SectionPiece(sections[j])]
           treeview_metadata_size == FileLen(treeview)
           total_added == FileLen(synthetic_data) + treeview_metadata_size
           remaining_start == treeview_offset + total_added
           remaining == IF FileLen(patched) > treeview_offset
                             /\ FileLen(patched) > remaining_start
                        THEN Drop(patched, remaining_start)
                        ELSE <<>>
           written == Take(patched, treeview_offset) \o synthetic_data
                          \o treeview \o remaining
       IN  fs' = [n \in DOMAIN fs \cup {output_path} |->
                     IF n = output_path THEN written ELSE fs[n]]
    /\ pc' = "written"
    /\ UNCHANGED <<dnVars, idx, snapVars, snapfile, run, runVars, exportVars, aceVars>>

\* enrich_snapshot is started again, on the file the last run wrote; the
\* object table of that file is the one of the input
Rerun ==
    /\ pc = "written"
    /\ run < MaxRuns
    /\ snapfile' = get_output_filename(snapfile)
    /\ run' = run + 1
    /\ pc' = "check"
    /\ dncache' = <<>>
    /\ treeview_offset' = 0
    /\ ncs' = <<>> /\ trees' = <<>>
    /\ synthetic_collector' = {} /\ synthetic_objects' = <<>> /\ synthetic_data' = <<>>
    /\ sections' = <<>> /\ header' = None
    /\ UNCHANGED <<dnVars, idx, objects, objectOffsets, propertyDict, rootdomain, fs, exportVars, aceVars>>

NextEnrich ==
    \/ CheckTreeview
    \/ NamingContexts
    \/ BuildTrees
    \/ CreateSynthetics
    \/ EncodeSections
    \/ WriteOutput
    \/ Rerun
SpecEnrich == InitEnrich /\ [][NextEnrich]_vars

---------------------------------------------------------------------------
(* The exporters: ObjectsOutput.process (ouput/objects.py) and              *)
(* BOFHoundOutput.process (ouput/bofhound.py).  Both start one daemon       *)
(* thread running write_worker over a queue.Queue, put every object and     *)
(* then None on the queue, and wait in wq.join().  The queue counts         *)
(* unfinished tasks: put adds one, task_done takes one away and raises      *)
(* ValueError when none is left, join waits until the count is zero.        *)

MaxRecords == 2

Exporters == {"objects", "bofhound"}

\* objects.py lines 24-28, 51: json.dumps with BaseSafeEncoder; a value of an
\* unsupported type ends in JSONEncoder.default, which raises TypeError.
json_dumps(rec) == IF rec = "ok" THEN "text" ELSE "TypeError"

\* bofhound.py lines 18-32: the last branch raises a plain Exception.
BOFHoundEncoder_encode(rec) == IF rec = "ok" THEN "text" ELSE "Exception"

encode(exp, rec) ==
    IF exp = "objects" THEN json_dumps(rec) ELSE BOFHoundEncoder_encode(rec)

Separator == [kind |-> "sep", i |-> 0]
Member(i) == [kind |-> "rec", i |-> i]

\* result_q.task_done(): the new count, or ValueError with the count kept.
task_done(n) ==
    IF n <= 0 THEN [raised |-> TRUE, n |-> n] ELSE [raised |-> FALSE, n |-> n - 1]

InitExport ==
    /\ exporter \in Exporters
    /\ can_open \in BOOLEAN
    /\ records \in SeqsUpTo({"ok", "bad"}, MaxRecords)
    /\ wq = <<>> /\ unfinished_tasks = 0
    /\ ppc = "start" /\ wpc = "unstarted"
    /\ produced = 0 /\ worker_data = 0 /\ wroteOnce = FALSE
    /\ fh_out = "none" /\ fh_written = <<>>
    /\ pc = "export"
    /\ dn = <<>> /\ ret = None /\ idx = 0
    /\ NoSnapshot /\ NoFiles /\ NoRun /\ NoAces

restOfExport == <<pc, dnVars, idx, snapVars, fileVars, runVars, aceVars,
                  exporter, can_open, records>>

\* objects.py lines 60-63: the queue is created and the thread started.
StartWorker ==
    /\ pc = "export" /\ ppc = "start"
    /\ ppc' = "loop" /\ wpc' = "open"
    /\ UNCHANGED <<restOfExport, wq, unfinished_tasks, produced, worker_data,
                   wroteOnce, fh_out, fh_written>>

\* lines 65-66: one turn of the producer loop.
ProducerPut ==
    /\ pc = "export" /\ ppc = "loop" /\ produced < Len(records)
    /\ produced' = produced + 1
    /\ wq' = Append(wq, produced + 1)
    /\ unfinished_tasks' = unfinished_tasks + 1
    /\ UNCHANGED <<restOfExport, ppc, wpc, worker_data, wroteOnce, fh_out,
                   fh_written>>

\* line 68: the end sentinel.
ProducerPutNone ==
    /\ pc = "export" /\ ppc = "loop" /\ produced = Len(records)
    /\ wq' = Append(wq, 0)
    /\ unfinished_tasks' = unfinished_tasks + 1
    /\ ppc' = "join"
    /\ UNCHANGED <<restOfExport, wpc, produced, worker_data, wroteOnce, fh_out,
                   fh_written>>

\* line 69 and after: join returns once no task is unfinished.
ProducerJoin ==
    /\ pc = "export" /\ ppc = "join" /\ unfinished_tasks = 0
    /\ ppc' = "returned"
    /\ UNCHANGED <<restOfExport, wq, unfinished_tasks, wpc, produced,
                   worker_data, wroteOnce, fh_out, fh_written>>

\* lines 31-38: the file is opened; on failure the worker warns, calls
\* task_done once and returns (or dies of the ValueError task_done raises).
WorkerOpen ==
    /\ pc = "export" /\ wpc = "open"
    /\ IF can_open
       THEN /\ fh_out' = "open" /\ wroteOnce' = FALSE /\ wpc' = "get"
            /\ UNCHANGED unfinished_tasks
       ELSE LET td == task_done(unfinished_tasks) IN
            /\ unfinished_tasks' = td.n
            /\ wpc' = IF td.raised THEN "ValueError" ELSE "returned"
            /\ UNCHANGED <<fh_out, wroteOnce>>
    /\ UNCHANGED <<restOfExport, wq, ppc, produced, worker_data, fh_written>>

\* WorkerGet on a queue that hands out its newest item first
WorkerGetNewest ==
    /\ pc = "export" /\ wpc = "get" /\ wq # <<>>
    /\ worker_data' = wq[Len(wq)]
    /\ wq' = SubSeq(wq, 1, Len(wq) - 1)
    /\ wpc' = IF wq[Len(wq)] = 0 THEN "close" ELSE "write"
    /\ UNCHANGED <<restOfExport, unfinished_tasks, ppc, produced, wroteOnce,
                   fh_out, fh_written>>

\* lines 40-43: get blocks while the queue is empty.
WorkerGet ==
    /\ pc = "export" /\ wpc = "get" /\ wq # <<>>
    /\ worker_data' = Head(wq)
    /\ wq' = Tail(wq)
    /\ wpc' = IF Head(wq) = 0 THEN "close" ELSE "write"
    /\ UNCHANGED <<restOfExport, unfinished_tasks, ppc, produced, wroteOnce,
                   fh_out, fh_written>>

\* lines 45-54: the separator, then the encoded record.  A TypeError is
\* logged; any other exception ends the thread.
WorkerWrite ==
    /\ pc = "export" /\ wpc = "write"
    /\ LET sep == IF wroteOnce THEN <<Separator>> ELSE <<>>
           enc == encode(exporter, records[worker_data])
       IN  /\ wroteOnce' = TRUE
           /\ fh_written' = fh_written \o sep \o
                  (IF enc = "text" THEN <<Member(worker_data)>> ELSE <<>>)
           /\ wpc' = IF enc = "Exception" THEN "Exception" ELSE "task_done"
    /\ UNCHANGED <<restOfExport, wq, unfinished_tasks, ppc, produced,
                   worker_data, fh_out>>

\* line 55
WorkerTaskDone ==
    /\ pc = "export" /\ wpc = "task_done"
    /\ LET td == task_done(unfinished_tasks) IN
       /\ unfinished_tasks' = td.n
       /\ wpc' = IF td.raised THEN "ValueError" ELSE "get"
    /\ UNCHANGED <<restOfExport, wq, ppc, produced, worker_data, wroteOnce,
                   fh_out, fh_written>>

\* line 57
WorkerClose ==
    /\ pc = "export" /\ wpc = "close"
    /\ fh_out' = "closed"
    /\ wpc' = "last_task_done"
    /\ UNCHANGED <<restOfExport, wq, unfinished_tasks, ppc, produced,
                   worker_data, wroteOnce, fh_written>>

\* line 58
WorkerLastTaskDone ==
    /\ pc = "export" /\ wpc = "last_task_done"
    /\ LET td == task_done(unfinished_tasks) IN
       /\ unfinished_tasks' = td.n
       /\ wpc' = IF td.raised THEN "ValueError" ELSE "returned"
    /\ UNCHANGED <<restOfExport, wq, ppc, produced, worker_data, wroteOnce,
                   fh_out, fh_written>>

NextExport ==
    \/ StartWorker
    \/ ProducerPut
    \/ ProducerPutNone
    \/ ProducerJoin
    \/ WorkerOpen
    \/ WorkerGet
    \/ WorkerWrite
    \/ WorkerTaskDone
    \/ WorkerClose
    \/ WorkerLastTaskDone

SpecExport == InitExport /\ [][NextExport]_vars

---------------------------------------------------------------------------
(* resolve_aces and processUsers: __init__.py lines 318-424.               *)
(* resolve_aces is wrapped in functools.lru_cache: a call with a key that  *)
(* is in the cache returns the list stored there, the same list and the    *)
(* same dicts as the first call returned.  A dict is kept in ace_dicts and *)
(* a list is the sequence of the places of its dicts.                      *)

\* most users processed
MaxUsers == 3

\* str.upper() on one character
UpperChar(c) ==
    CASE c = "a" -> "A" [] c = "b" -> "B" [] c = "c" -> "C" [] c = "d" -> "D"
      [] c = "e" -> "E" [] c = "f" -> "F" [] c = "g" -> "G" [] c = "h" -> "H"
      [] c = "i" -> "I" [] c = "j" -> "J" [] c = "k" -> "K" [] c = "l" -> "L"
      [] c = "m" -> "M" [] c = "n" -> "N" [] c = "o" -> "O" [] c = "p" -> "P"
      [] c = "q" -> "Q" [] c = "r" -> "R" [] c = "s" -> "S" [] c = "t" -> "T"
      [] c = "u" -> "U" [] c = "v" -> "V" [] c = "w" -> "W" [] c = "x" -> "X"
      [] c = "y" -> "Y" [] c = "z" -> "Z" [] OTHER -> c
Upper(s) == [i \in 1..Len(s) |-> UpperChar(s[i])]

\* ADUtils.ldap2domain(distinguishedName) of the users of the snapshot
UserDomain == <<"e", ".", "l">>

\* the SIDs of ADUtils.WELLKNOWN_SIDS that the ACLs use, with their types
WellKnownSids == {"S-1-1-0", "S-1-5-11"}
\* lines 407-409: WELLKNOWN_SIDS[sid][1].capitalize()
WellKnownType(sid) == "Group"

\* an ACE as _parse_acl_cached freezes it (lines 427-435)
ParsedAce(rightname, sid) ==
    [rightname |-> rightname, acetype |-> "Allowed", inherited |-> FALSE,
     sid |-> sid]

\* the ACLs of the snapshot, each in the iteration order of its frozenset
OwnerAndGenericAll ==
    <<ParsedAce("Owner", "S-1-1-0"), ParsedAce("GenericAll", "S-1-5-11")>>
GenericWriteOnly == <<ParsedAce("GenericWrite", "S-1-5-21-7")>>
AclUniverse == {OwnerAndGenericAll, GenericWriteOnly}

\* a user entry: msDS-GroupMSAMembership (None for b'') and
\* nTSecurityDescriptor
UserEntries ==
    [gmsa : {None} \cup {Some(a) : a \in AclUniverse}, sd : AclUniverse]

\* lines 400-421: the dict made for one ACE; a SID that is not well known
\* and not in sidcache resolves to the type Unknown
ResolveAce(ace, domain) ==
    [RightName |-> ace.rightname,
     AceType |-> ace.acetype,
     IsInherited |-> ace.inherited,
     PrincipalSID |-> IF ace.sid \in WellKnownSids
                      THEN Upper(domain) \o <<"-", ace.sid>>
                      ELSE <<ace.sid>>,
     PrincipalType |-> IF ace.sid \in WellKnownSids
                       THEN WellKnownType(ace.sid) ELSE "Unknown"]

\* lines 398-424: the body of resolve_aces, evaluated
resolve_aces(aces, domain) == [i \in 1..Len(aces) |-> ResolveAce(aces[i], domain)]

\* line 397: resolve_aces(aces, domain) through lru_cache.  The result is
\* [cache, dicts, list]: the cache and the dicts after the call and the list
\* returned.
CachedCall(cache, dicts, aces, domain) ==
    IF <<aces, domain>> \in DOMAIN cache
    THEN [cache |-> cache, dicts |-> dicts, list |-> cache[<<aces, domain>>]]
    ELSE LET made == resolve_aces(aces, domain)
             list == [i \in 1..Len(made) |-> Len(dicts) + i]
         IN  [cache |-> (<<aces, domain>> :> list) @@ cache,
              dicts |-> dicts \o made,
              list |-> list]

\* lines 383-387: the loop over processed_aces, from the i-th on; st is
\* [dicts, Aces]
RECURSIVE RewriteGmsa(_, _, _)
RewriteGmsa(st, processed_aces, i) ==
    IF i > Len(processed_aces) THEN st
    ELSE LET a == processed_aces[i]
         IN  IF st.dicts[a].RightName = "Owner"
             THEN RewriteGmsa(st, processed_aces, i + 1)
             ELSE RewriteGmsa(
                    [dicts |-> [st.dicts EXCEPT ![a].RightName = "ReadGMSAPassword"],
                     Aces |-> Append(st.Aces, a)],
                    processed_aces, i + 1)

InitAces ==
    /\ pc = "bloodhound"
    /\ resolve_aces_cache = <<>> /\ ace_dicts = <<>>
    /\ writeQueue_users = <<>> /\ numUsers = 0
    /\ dn = <<>> /\ ret = None /\ idx = 0
    /\ NoSnapshot /\ NoFiles /\ NoRun /\ NoExport

\* lines 318-395, for an entry that is a user or a gMSA
processUsers ==
    /\ pc = "bloodhound" /\ numUsers < MaxUsers
    /\ \E entry \in UserEntries :
         LET g == IF IsNone(entry.gmsa)
                  THEN [cache |-> resolve_aces_cache, dicts |-> ace_dicts,
                        Aces |-> <<>>]
                  ELSE LET r == CachedCall(resolve_aces_cache, ace_dicts,
                                           Val(entry.gmsa), UserDomain)
                           w == RewriteGmsa([dicts |-> r.dicts, Aces |-> <<>>],
                                            r.list, 1)
                       IN  [cache |-> r.cache, dicts |-> w.dicts, Aces |-> w.Aces]
             r2 == CachedCall(g.cache, g.dicts, entry.sd, UserDomain)
         IN  /\ resolve_aces_cache' = r2.cache
             /\ ace_dicts' = r2.dicts
             /\ writeQueue_users' =
                   Append(writeQueue_users, [entry |-> entry, Aces |-> g.Aces \o r2.list])
    /\ numUsers' = numUsers + 1
    /\ UNCHANGED <<pc, dnVars, idx, snapVars, fileVars, runVars, exportVars>>

NextAces == processUsers
SpecAces == InitAces /\ [][NextAces]_vars

---------------------------------------------------------------------------
(* Claims.                                                                 *)

\* 1-based positions of the commas of s not immediately preceded by a backslash
UnescapedCommas(s) ==
    {i \in 1..Len(s) : s[i] = "," /\ (i = 1 \/ s[i - 1] # "\\")}
FirstUnescapedComma(s) ==
    CHOOSE i \in UnescapedCommas(s) : \A j \in UnescapedCommas(s) : i <= j

\* C8 as stated: get_parent_dn returns the substring after the first comma
\* not immediately preceded by a backslash (whatever that substring is), and
\* no parent when there is no such comma; the Smith example yields its parent.
C8_AsStated ==
    pc = "returned" =>
        /\ ret = IF UnescapedCommas(dn) = {} THEN None
                 ELSE Some(PyFrom(dn, FirstUnescapedComma(dn)))
        /\ (dn = SmithDN => ret = Some(SmithParent))

\* C8 amended: get_parent_dn returns the substring after the first comma not
\* immediately preceded by a backslash when that substring is not empty, and
\* no parent when the DN has no such comma or that comma is its last
\* character; the Smith example yields OU=Users,DC=example,DC=com.
C8_ParentExtraction ==
    pc = "returned" =>
        /\ ret = IF UnescapedCommas(dn) = {} THEN None
                 ELSE IF FirstUnescapedComma(dn) = Len(dn) THEN None
                 ELSE Some(PyFrom(dn, FirstUnescapedComma(dn)))
        /\ (dn = SmithDN => ret = Some(SmithParent))

\* C8 witness: the Smith example has been split after "Smith\, John"
C8_Witness == pc = "returned" /\ dn = SmithDN /\ ret = Some(SmithParent)

\* positions (1-based) of the processed objects with a non-empty DN
Indexed == {i \in 1..idx : Truthy(objects[i])}
Collide(i, j) ==
    i < j /\ Lower(Val(objects[i])) = Lower(Val(objects[j]))

\* C10 as stated: once the pass has met two distinct objects whose DNs are
\* equal after case-folding, a fatal integrity error has been signalled and
\* the earlier entry is still in the cache; without such a collision, after
\* the pass dncache[dn] is the index of every object with a non-empty DN.
C10_CollisionIsFatal ==
    /\ \A i \in Indexed : \A j \in Indexed :
           Collide(i, j) =>
               /\ pc = "raised"
               /\ CIGet(dncache, Val(objects[i])) = i - 1
    /\ (pc = "done" /\ ~(\E i \in Indexed : \E j \in Indexed : Collide(i, j))) =>
           \A i \in Indexed : CIGet(dncache, Val(objects[i])) = i - 1

---------------------------------------------------------------------------
(* Claims about build_nc_tree and encode_section.                          *)

\* the trees have been built (build_nc_tree has returned for every ncs[k])
Built == pc \in {"synthesize", "encode", "write", "written", "failed", "raised"}
\* every section has been encoded
Encoded == pc \in {"write", "written"}

\* the parent of d by the first comma not preceded by a backslash; d itself
\* when there is none
ParentByComma(d) ==
    IF UnescapedCommas(d) = {} THEN d ELSE PyFrom(d, FirstUnescapedComma(d))
\* d and its ancestors up to and including root; the chain ends at a DN
\* without parent when root is not on it
RECURSIVE AncestorChain(_, _)
AncestorChain(d, root) ==
    IF d = root \/ ParentByComma(d) = d THEN {d}
    ELSE {d} \cup AncestorChain(ParentByComma(d), root)

NodeDns(tree) == {flatten(tree)[k].dn : k \in 1..Len(flatten(tree))}

\* C1 as stated: once build_nc_tree has returned, every DN of the index that
\* satisfies the predicate is a node of the returned tree, and so is every DN
\* of its ancestor chain up to and including the NC root.
C1_TreeComplete ==
    Built =>
        \A k \in 1..Len(ncs) : \A e \in 1..Len(dncache) :
            nc_filter(ncs[k], dncache[e].key) =>
                /\ ~IsNone(trees[k])
                /\ ncs[k].root \in AncestorChain(dncache[e].key, ncs[k].root)
                /\ AncestorChain(dncache[e].key, ncs[k].root) \subseteq NodeDns(Val(trees[k]))

\* C1, where it holds: when the NC root itself is a key of the index, every
\* filtered DN and its ancestor chain up to the root are nodes of the tree.
C1_CompleteWhenRootIndexed ==
    Built =>
        \A k \in 1..Len(ncs) : \A e \in 1..Len(dncache) :
            (/\ nc_filter(ncs[k], dncache[e].key)
             /\ \E x \in 1..Len(dncache) : dncache[x].key = ncs[k].root) =>
                /\ ~IsNone(trees[k])
                /\ AncestorChain(dncache[e].key, ncs[k].root) \subseteq NodeDns(Val(trees[k]))

\* what a reader of the section finds at byte position pos, following the
\* ParentNode layout with child_offsets read as relative byte offsets; Bad
\* when the entry does not lie in the section
BadShape == [offset |-> <<-1, -1>>, parents |-> <<>>, leaves |-> <<>>]
RECURSIVE DecodeAt(_, _, _)
DecodeAt(words, pos, fuel) ==
    LET wp == pos \div 4
    IN  IF fuel = 0 \/ pos < 0 \/ pos % 4 # 0 \/ wp + 4 > Len(words) THEN BadShape
        ELSE LET nWith == words[wp + 3]
                 nWithout == words[wp + 4]
             IN  IF nWith < 0 \/ nWithout < 0
                    \/ wp + 4 + nWith + 2 * nWithout > Len(words)
                 THEN BadShape
                 ELSE [offset |-> <<words[wp + 1], words[wp + 2]>>,
                       parents |-> [i \in 1..nWith |->
                           DecodeAt(words, pos + words[wp + 4 + i], fuel - 1)],
                       leaves |-> [i \in 1..nWithout |->
                           <<words[wp + 4 + nWith + 2 * i - 1],
                             words[wp + 4 + nWith + 2 * i]>>]]

\* the same view of a source tree node that has children
RECURSIVE Shape(_)
Shape(node) ==
    LET w == SelectChildren(node.children, 1, TRUE)
        wo == SelectChildren(node.children, 1, FALSE)
    IN  [offset |-> <<Lo32(node.obj_offset), Hi32(node.obj_offset)>>,
         parents |-> [i \in 1..Len(w) |-> Shape(w[i])],
         leaves |-> [i \in 1..Len(wo) |->
                        <<Lo32(wo[i].obj_offset), Hi32(wo[i].obj_offset)>>]]

\* the tree encoded into sections[j]
SectionTree(j) == Val(trees[SectionNames(ncs, trees, 1)[j]])

\* C2: decoding an encoded section from its first byte gives back, for every
\* node, its object-record offset, its children with children and its leaf
\* children.
C2_RoundTrip ==
    Encoded =>
        \A j \in 1..Len(sections) :
            DecodeAt(sections[j], 0, Len(sections[j]) + 1) = Shape(SectionTree(j))

\* C2 witness: a section was encoded from a tree three levels deep whose root
\* has a child with children and a leaf child
C2_Witness ==
    /\ Encoded
    /\ \E j \in 1..Len(sections) :
         LET t == Shape(SectionTree(j))
         IN  /\ Len(t.parents) > 0 /\ Len(t.leaves) > 0
             /\ \E i \in 1..Len(t.parents) : Len(t.parents[i].parents) > 0

\* the nodes of the tree that have children, in pre-order
RECURSIVE ParentsOf(_, _)
ParentsOf(nodes, k) ==
    IF k > Len(nodes) THEN <<>>
    ELSE IF Len(nodes[k].children) > 0 THEN <<nodes[k]>> \o ParentsOf(nodes, k + 1)
         ELSE ParentsOf(nodes, k + 1)

\* every child_offsets value of the section of tree t, compared by R with the
\* positions the layout pass assigned, in words
ChildOffsetsAre(words, t, R(_, _, _)) ==
    LET pos == Layout(t).node_word_positions
        ps == ParentsOf(flatten(t), 1)
    IN  \A k \in 1..Len(ps) :
            LET w == SelectChildren(ps[k].children, 1, TRUE)
            IN  \A i \in 1..Len(w) :
                    R(words[pos[ps[k].obj_idx] + 4 + i],
                      pos[w[i].obj_idx], pos[ps[k].obj_idx])

InWords(v, child_pos, node_pos) == v = child_pos - node_pos
InBytes(v, child_pos, node_pos) == v = 4 * (child_pos - node_pos)

\* C6 as stated: every child_offsets value is the child's assigned position
\* minus the node's assigned position, in 4-byte words.
C6_OffsetsInWords ==
    Encoded =>
        \A j \in 1..Len(sections) :
            ChildOffsetsAre(sections[j], SectionTree(j), InWords)

\* C6 amended: every child_offsets value is four times the child's assigned
\* word position minus the node's assigned word position, i.e. the distance
\* between the two entries in bytes.
C6_OffsetsInBytes ==
    Encoded =>
        \A j \in 1..Len(sections) :
            ChildOffsetsAre(sections[j], SectionTree(j), InBytes)

\* C6 witness: an encoded entry that is not the root's has a child offset
C6_Witness ==
    /\ Encoded
    /\ \E j \in 1..Len(sections) :
         \E i \in 1..Len(Shape(SectionTree(j)).parents) :
            Len(Shape(SectionTree(j)).parents[i].parents) > 0

\* the entries of a section read one after the other from byte 0; the scan
\* stops at the end of the section or at an entry that does not fit
RECURSIVE ScanEntries(_, _)
ScanEntries(words, wp) ==
    IF wp + 4 > Len(words) THEN <<>>
    ELSE LET nWith == words[wp + 3]
             nWithout == words[wp + 4]
         IN  IF nWith < 0 \/ nWithout < 0
                \/ wp + 4 + nWith + 2 * nWithout > Len(words)
             THEN <<>>
             ELSE <<[offset |-> <<words[wp + 1], words[wp + 2]>>,
                     nWith |-> nWith, nWithout |-> nWithout,
                     inline |-> [i \in 1..nWithout |->
                                    <<words[wp + 4 + nWith + 2 * i - 1],
                                      words[wp + 4 + nWith + 2 * i]>>]]>>
                  \o ScanEntries(words, wp + 4 + nWith + 2 * nWithout)

Off64(node) == <<Lo32(node.obj_offset), Hi32(node.obj_offset)>>

\* the longest inline array of the entries
RECURSIVE MaxInline(_)
MaxInline(entries) ==
    IF Len(entries) = 0 THEN 0
    ELSE LET m == MaxInline(Tail(entries))
         IN  IF Head(entries).nWithout > m THEN Head(entries).nWithout ELSE m

\* number of places of the inline arrays of the entries that hold offset o
InlineCount(entries, o) ==
    Cardinality({<<k, i>> \in (1..Len(entries)) \X (1..MaxInline(entries)) :
                    i <= entries[k].nWithout /\ entries[k].inline[i] = o})

\* C7 for one section: the entries are those of the nodes with children, in
\* pre-order, each with the two counts and the inline offsets of its node; a
\* childless node has no entry and its offset is in exactly one inline place
LeafInlining(words, t) ==
    LET entries == ScanEntries(words, 0)
        nodes == flatten(t)
        ps == ParentsOf(nodes, 1)
    IN  /\ Len(entries) = Len(ps)
        /\ \A k \in 1..Len(ps) :
             LET w == SelectChildren(ps[k].children, 1, TRUE)
                 wo == SelectChildren(ps[k].children, 1, FALSE)
             IN  /\ entries[k].offset = Off64(ps[k])
                 /\ entries[k].nWith = Len(w)
                 /\ entries[k].nWithout = Len(wo)
                 /\ entries[k].inline = [i \in 1..Len(wo) |-> Off64(wo[i])]
        /\ \A n \in 2..Len(nodes) :
             Len(nodes[n].children) = 0 =>
                /\ InlineCount(entries, Off64(nodes[n])) = 1
                /\ \A k \in 1..Len(entries) : entries[k].offset # Off64(nodes[n])

\* C7: in every encoded section a node has a standalone entry iff it has a
\* child; a childless non-root node has none, and its object-record offset
\* appears exactly once, in the inline_child_offsets of its parent's entry,
\* whose counts are the numbers of the parent's children with and without
\* children.
C7_LeafInlining ==
    Encoded =>
        \A j \in 1..Len(sections) : LeafInlining(sections[j], SectionTree(j))

\* C7 witness: an encoded tree with a leaf below the root's children and a
\* leaf child of the root
C7_Witness ==
    /\ Encoded
    /\ \E j \in 1..Len(sections) :
         LET t == Shape(SectionTree(j))
         IN  /\ Len(t.leaves) > 0
             /\ \E i \in 1..Len(t.parents) : Len(t.parents[i].leaves) > 1

\* the built tree of the k-th naming context has a root without children
ChildlessRoot(k) ==
    /\ k \in 1..Len(trees) /\ ~IsNone(trees[k])
    /\ Len(Val(trees[k]).children) = 0

\* C13: encode_section applied to a tree whose root has no children raises
\* and returns no bytes, so the run ends without sections; and no encoded
\* section has an entry whose two child counts are both zero.
C13_ChildlessRootFailsFast ==
    /\ Built =>
          \A k \in 1..Len(trees) :
             ChildlessRoot(k) =>
                /\ encode_section(Val(trees[k])).raised
                /\ encode_section(Val(trees[k])).words = <<>>
                /\ pc \in {"synthesize", "encode", "raised"}
                /\ sections = <<>> /\ header = None
    /\ Encoded =>
          \A j \in 1..Len(sections) :
             LET entries == ScanEntries(sections[j], 0)
             IN  \A e \in 1..Len(entries) :
                    entries[e].nWith + entries[e].nWithout > 0

\* C13 witness: encode_section has raised on a root without children
C13_Witness == pc = "raised" /\ ChildlessRoot(1)

\* create_synthetic_objects_data has returned its records
Synthesized == pc \in {"encode", "write", "written", "failed"}

\* a is a proper ancestor of d: d is some components, a comma, then a
ProperAncestor(a, d) == EndsWith(d, <<",">> \o a)

\* C14: create_synthetic_objects_data takes the missing DNs in order of
\* non-decreasing length and gives them the consecutive indices N, N+1, ...
\* with N the number of real objects: no synthetic index is a real index,
\* no two synthetic objects share one, and a synthesized ancestor has a
\* smaller index and a smaller offset than any synthesized descendant.
C14_SyntheticIndices ==
    Synthesized =>
        LET so == synthetic_objects
            N == Len(objectOffsets)
        IN  /\ {so[i].dn : i \in 1..Len(so)} = synthetic_collector
            /\ Len(so) = Cardinality(synthetic_collector)
            /\ \A i \in 1..Len(so) : so[i].obj_idx = N + i - 1
            /\ \A i, j \in 1..Len(so) : i < j => Len(so[i].dn) <= Len(so[j].dn)
            /\ \A i \in 1..Len(so) : so[i].obj_idx \notin 0..(N - 1)
            /\ \A i, j \in 1..Len(so) : i # j => so[i].obj_idx # so[j].obj_idx
            /\ \A i, j \in 1..Len(so) :
                   ProperAncestor(so[i].dn, so[j].dn) =>
                      /\ so[i].obj_idx < so[j].obj_idx
                      /\ so[i].obj_offset < so[j].obj_offset

\* C14 witness: a synthesized ancestor and descendant next to real objects,
\* with another DN as long as the ancestor
C14_Witness ==
    /\ Synthesized
    /\ Len(objectOffsets) > 0
    /\ \E i, j, k \in 1..Len(synthetic_objects) :
          /\ ProperAncestor(synthetic_objects[i].dn, synthetic_objects[j].dn)
          /\ k # i
          /\ Len(synthetic_objects[k].dn) = Len(synthetic_objects[i].dn)

\* sum of the recordSize fields of the records from the k-th on
RECURSIVE SumObjSize(_, _)
SumObjSize(data, k) ==
    IF k > Len(data) THEN 0 ELSE data[k].objSize + SumObjSize(data, k + 1)

\* the records lie one after the other from treeview_offset on, each has one
\* mapping-table entry and a recordSize equal to its bytes
RecordsExact ==
    /\ Len(synthetic_data) = Len(synthetic_objects)
    /\ \A i \in 1..Len(synthetic_data) :
          /\ synthetic_data[i].tableSize = 1
          /\ synthetic_data[i].text = synthetic_objects[i].dn
          /\ synthetic_data[i].objSize = SyntheticLen(synthetic_data[i])
    /\ Len(synthetic_objects) > 0 =>
          synthetic_objects[1].obj_offset = treeview_offset
    /\ \A i \in 1..(Len(synthetic_objects) - 1) :
          synthetic_objects[i + 1].obj_offset =
              synthetic_objects[i].obj_offset + synthetic_data[i].objSize
    /\ FileLen(synthetic_data) = SumObjSize(synthetic_data, 1)

\* C15 as stated: each synthetic record has one mapping-table entry and a
\* recordSize equal to the bytes emitted for it, 8 + 8 + 8 + 2*len(dn) + 2;
\* the first record is at the start offset, each next one at the previous
\* offset plus the previous recordSize, and the data returned is as long as
\* the sum of the recordSizes.
C15_AsStated ==
    Synthesized =>
        /\ RecordsExact
        /\ \A i \in 1..Len(synthetic_data) :
              synthetic_data[i].objSize =
                  8 + 8 + 8 + 2 * Len(synthetic_objects[i].dn) + 2

\* C15, amended: the same, with the size 8 + 8 + 8 + 2*u + 2 where u is the
\* number of UTF-16 code units of the DN (a character outside the basic
\* plane counts twice).
C15_SizesAndOffsets ==
    Synthesized =>
        /\ RecordsExact
        /\ \A i \in 1..Len(synthetic_data) :
              synthetic_data[i].objSize =
                  8 + 8 + 8 + 2 * Utf16Len(synthetic_objects[i].dn) + 2

\* C15 witness: three records, one of a DN with a character outside the
\* basic plane followed by another record
C15_Witness ==
    /\ Synthesized
    /\ Len(synthetic_data) = 3
    /\ \E i \in 1..2 : Utf16Len(synthetic_data[i].text) > Len(synthetic_data[i].text)

\* the offset of the record of the real object with the DN d
OffsetOfDN(d) ==
    objectOffsets[CHOOSE i \in 1..Len(objects) : objects[i] = Some(d)]
Off64Of(o) == <<Lo32(o), Hi32(o)>>

\* C19: from the objects DC=example,DC=com, OU=B,OU=A,DC=example,DC=com and
\* CN=x and CN=y below OU=B, with OU=A missing, exactly one synthetic object
\* is created, for OU=A,DC=example,DC=com; the root of the tree is
\* DC=example,DC=com; in the section the entry of OU=B has the offsets of
\* CN=x and CN=y as its inline leaf offsets, and neither has an entry.
C19_ExampleScenario ==
    /\ Built =>
          /\ synthetic_collector = {OuA}
          /\ ~IsNone(trees[1])
          /\ Val(trees[1]).dn = ExampleRoot
    /\ Synthesized =>
          /\ Len(synthetic_objects) = 1
          /\ synthetic_objects[1].dn = OuA
          /\ synthetic_objects[1].obj_idx = 4
          /\ Len(synthetic_data) = 1
    /\ Encoded =>
          LET entries == ScanEntries(sections[1], 0)
              at(o) == {e \in 1..Len(entries) : entries[e].offset = Off64Of(o)}
          IN  /\ Len(sections) = 1
              /\ Cardinality(at(OffsetOfDN(OuB))) = 1
              /\ \A e \in at(OffsetOfDN(OuB)) :
                    /\ entries[e].nWith = 0
                    /\ entries[e].nWithout = 2
                    /\ {entries[e].inline[i] : i \in 1..2}
                          = {Off64Of(OffsetOfDN(CnX)), Off64Of(OffsetOfDN(CnY))}
              /\ at(OffsetOfDN(CnX)) = {}
              /\ at(OffsetOfDN(CnY)) = {}
              /\ Len(entries) = 3

\* C19 witness: the section of the scenario is encoded
C19_Witness ==
    /\ Encoded
    /\ {objects[i] : i \in 1..Len(objects)} = {Some(d) : d \in ExampleDNs}
    /\ Len(synthetic_objects) = 1

\* the keys of the DN index
IndexKeys == {dncache[e].key : e \in 1..Len(dncache)}

\* the proper ancestors of the filtered real DNs of the k-th naming context,
\* each walked up to the NC root or to the end of the DN
AncestorsOfReal(k) ==
    UNION { AncestorChain(dncache[e].key, ncs[k].root) \ {dncache[e].key} :
            e \in {x \in 1..Len(dncache) : nc_filter(ncs[k], dncache[x].key)} }

\* C21: build_nc_tree makes a placeholder only for an ancestor DN that
\* satisfies the predicate, is not a key of the index and is not the NC
\* root; no placeholder has the DN of the NC root, also when the NC root is
\* not indexed and is the immediate parent of a filtered DN.
C21_NoSyntheticRoot ==
    Built =>
        \A d \in synthetic_collector :
            /\ \E k \in 1..Len(ncs) :
                  nc_filter(ncs[k], d) /\ d \in AncestorsOfReal(k)
            /\ d \notin IndexKeys
            /\ \A k \in 1..Len(ncs) : d # ncs[k].root

\* C22: a placeholder, and later a synthetic record, is made for a DN only
\* if it is an ancestor of a filtered real DN and no object of the index
\* has that DN under the index's case-insensitive comparison, also when a
\* descendant spells the DN of a real container in another letter case.
C22_SyntheticsOnlyForAbsent ==
    /\ Built =>
          \A d \in synthetic_collector :
             /\ \E k \in 1..Len(ncs) : d \in AncestorsOfReal(k)
             /\ ~CIHas(dncache, d)
    /\ \A i \in 1..Len(synthetic_objects) :
          ~CIHas(dncache, synthetic_objects[i].dn)

\* dn_to_info of the k-th naming context at the end of build_nc_tree
InfoAtEnd(k) == BuildState(ncs[k], dncache, objectOffsets, {}).info

\* the DNs of dn_to_info that are as short as the shortest
ShortestKeys(k) ==
    {InfoAtEnd(k)[i].dn : i \in
        {x \in 1..Len(InfoAtEnd(k)) :
            \A y \in 1..Len(InfoAtEnd(k)) :
                Len(InfoAtEnd(k)[x].dn) <= Len(InfoAtEnd(k)[y].dn)}}

\* C25: the root of a tree build_nc_tree returns is the one DN of least
\* length in dn_to_info, and it is the NC root when the NC root is indexed;
\* no tree is returned when two or more DNs share the least length.
C25_RootIsSingleShortest ==
    Built =>
        \A k \in 1..Len(trees) :
            ~IsNone(trees[k]) =>
                /\ ShortestKeys(k) = {Val(trees[k]).dn}
                /\ (ncs[k].root \in IndexKeys /\ nc_filter(ncs[k], ncs[k].root)
                       => Val(trees[k]).dn = ncs[k].root)

\* the part of C25 that holds: the root is one of the shortest DNs, and the
\* NC root when that is indexed
C25_RootAmongShortest ==
    Built =>
        \A k \in 1..Len(trees) :
            ~IsNone(trees[k]) =>
                /\ Val(trees[k]).dn \in ShortestKeys(k)
                /\ (ncs[k].root \in IndexKeys /\ nc_filter(ncs[k], ncs[k].root)
                       => ShortestKeys(k) = {ncs[k].root})

\* the nodes with children below and including node, a parent before its
\* children and the children in their order
RECURSIVE PreOrderParents(_)
RECURSIVE PreOrderParentsOf(_, _)
PreOrderParents(node) ==
    IF Len(node.children) = 0 THEN <<>>
    ELSE <<node>> \o PreOrderParentsOf(node.children, 1)
PreOrderParentsOf(nodes, k) ==
    IF k > Len(nodes) THEN <<>>
    ELSE PreOrderParents(nodes[k]) \o PreOrderParentsOf(nodes, k + 1)

\* the places of the children of n that have children
KidsWith(n) == {k \in 1..Len(n.children) : Len(n.children[k].children) > 0}
\* the c-th child of n that has children
KidWith(n, c) ==
    n.children[CHOOSE k \in KidsWith(n) :
                  Cardinality({x \in KidsWith(n) : x <= k}) = c]

\* words of the entry of n: 4 + children with children + 2 * leaf children
EntryWords(n) ==
    4 + Cardinality(KidsWith(n)) + 2 * (Len(n.children) - Cardinality(KidsWith(n)))

\* words of the entries of the first n of ps
RECURSIVE SumEntryWords(_, _)
SumEntryWords(ps, n) ==
    IF n = 0 THEN 0 ELSE SumEntryWords(ps, n - 1) + EntryWords(ps[n])

\* C27 for one section and its tree
Tiles(words, t) ==
    LET ps == PreOrderParents(t)
        entries == ScanEntries(words, 0)
        start(i) == SumEntryWords(ps, i - 1)
    IN  /\ 4 * Len(words) = 4 * SumEntryWords(ps, Len(ps))
        /\ Len(ps) > 0 /\ ps[1] = t
        /\ Len(entries) = Len(ps)
        /\ \A i \in 1..Len(ps) :
              /\ entries[i].offset = Off64(ps[i])
              /\ entries[i].nWith = Cardinality(KidsWith(ps[i]))
              /\ entries[i].nWithout = Len(ps[i].children) - Cardinality(KidsWith(ps[i]))
              /\ \A c \in 1..Cardinality(KidsWith(ps[i])) :
                    LET rel == words[start(i) + 4 + c]
                    IN  /\ rel > 0 /\ rel % 4 = 0
                        /\ \E m \in (i + 1)..Len(ps) :
                              /\ 4 * start(m) = 4 * start(i) + rel
                              /\ ps[m] = KidWith(ps[i], c)

\* C27: an encoded section is as long as the entries of the nodes with
\* children, 4 * (4 + children with children + 2 * leaf children) bytes
\* each; read from byte 0 the entries follow one another without gap in
\* pre-order, the root's first, and every relative child offset is positive
\* and is the distance to the first byte of that child's entry.
C27_EntriesTile ==
    Encoded =>
        \A j \in 1..Len(sections) : Tiles(sections[j], SectionTree(j))

\* C27 witness: an encoded section of three entries or more, one of them the
\* entry of a grandchild of the root
C27_Witness ==
    /\ Encoded
    /\ \E j \in 1..Len(sections) :
         /\ Len(PreOrderParents(SectionTree(j))) >= 3
         /\ \E c \in KidsWith(SectionTree(j)) :
               KidsWith(SectionTree(j).children[c]) # {}

---------------------------------------------------------------------------
(* Claims about the files enrich_snapshot reads and writes.                *)

InputFile == fs[snapfile]
OutputFile == fs[get_output_filename(snapfile)]
\* the treeview block as the run encoded it
EncodedTreeview ==
    <<Val(header)>> \o [j \in 1..Len(sections) |-> SectionPiece(sections[j])]

\* C3: a run of enrich_snapshot on the output of a successful run finds the
\* treeview populated and writes nothing: it returns at line 120.
C3_SecondRunWritesNothing ==
    run >= 2 => pc \in {"check", "exists"}

\* a second run that does find the treeview of the first
C3_SecondRunFindsTreeview ==
    run >= 2 /\ pc = "exists"

C5_LayoutAndTruncation ==
    pc = "written" =>
        /\ OutputFile[1].k = "header"
        /\ OutputFile[1].sig = "win"
        /\ Tail(OutputFile)
              = Tail(Take(InputFile, treeview_offset)) \o synthetic_data \o EncodedTreeview

\* what the output holds after the new treeview: the bytes of the input
\* from the end of the added bytes on, when the input is that long
C5_LayoutKeepsInputTail ==
    pc = "written" =>
        LET added == FileLen(synthetic_data) + FileLen(EncodedTreeview)
        IN  /\ OutputFile[1].k = "header"
            /\ OutputFile[1].sig = "win"
            /\ Tail(OutputFile)
                  = Tail(Take(InputFile, treeview_offset)) \o synthetic_data
                        \o EncodedTreeview \o Drop(InputFile, treeview_offset + added)

\* the DN of the object, real or synthetic, whose record is at offset o
DnAtOffset(o) ==
    IF \E i \in 1..Len(objectOffsets) : objectOffsets[i] = o
    THEN Val(objects[CHOOSE i \in 1..Len(objectOffsets) : objectOffsets[i] = o])
    ELSE IF \E i \in 1..Len(synthetic_objects) : synthetic_objects[i].obj_offset = o
    THEN synthetic_objects[CHOOSE i \in 1..Len(synthetic_objects) :
                               synthetic_objects[i].obj_offset = o].dn
    ELSE <<>>

\* some DN of the snapshot lies in the zone with that prefix
ZonePresent(prefix) ==
    \E i \in 1..Len(objects) : EndsWith(Val(objects[i]), prefix \o Val(rootdomain))

\* the fixed order of the sections, and the root DN of each
ExpectedOrder ==
    <<"Domain", "Configuration", "Schema">>
        \o (IF ZonePresent(DomainDnsPrefix) THEN <<"DomainDnsZones">> ELSE <<>>)
        \o (IF ZonePresent(ForestDnsPrefix) THEN <<"ForestDnsZones">> ELSE <<>>)
ExpectedRoot(name) ==
    CASE name = "Domain" -> Val(rootdomain)
      [] name = "Configuration" -> ConfigPrefix \o Val(rootdomain)
      [] name = "Schema" -> SchemaPrefix \o ConfigPrefix \o Val(rootdomain)
      [] name = "DomainDnsZones" -> DomainDnsPrefix \o Val(rootdomain)
      [] name = "ForestDnsZones" -> ForestDnsPrefix \o Val(rootdomain)

\* the populated treeview headers of a file, and the offset of a piece
TreeviewStarts(c) == {k \in 1..Len(c) : c[k].k = "tvheader" /\ c[k].magic = "FE"}
OffsetOfPiece(c, k) == FileLen(SubSeq(c, 1, k - 1))

C12_IdempotenceGuard ==
    /\ [](pc = "exists" =>
            /\ dncache = <<>> /\ ncs = <<>> /\ trees = <<>>
            /\ synthetic_collector = {} /\ synthetic_objects = <<>>
            /\ sections = <<>> /\ header = None)
    /\ [][ \/ pc = "check" /\ check_treeview_exists(InputFile).exists
           \/ pc = "exists"
           => pc' = "exists" /\ fs' = fs ]_vars

\* a first run on a snapshot that already has a populated treeview
C12_Witness ==
    /\ pc = "exists" /\ run = 1
    /\ check_treeview_exists(InputFile).exists
    /\ Len(objects) > 0
    /\ DOMAIN fs = {snapfile}

\* C16: when the schema has no distinguishedName property and a DN is
\* missing, create_synthetic_objects_data raises instead of returning
\* records, and the run writes no output file; a property index of 0 counts
\* as present, and the records then carry it.
C16_MissingPropertyFails ==
    /\ (IsNone(propertyDict) /\ synthetic_collector # {}) =>
          /\ pc \in {"synthesize", "raised"}
          /\ synthetic_objects = <<>> /\ synthetic_data = <<>>
          /\ sections = <<>> /\ header = None
          /\ DOMAIN fs \subseteq {snapfile}
    /\ (propertyDict = Some(0) /\ synthetic_collector # {} /\ pc # "synthesize") =>
          /\ Len(synthetic_data) = Cardinality(synthetic_collector)
          /\ \A i \in 1..Len(synthetic_data) : synthetic_data[i].attrIndex = 0

\* C16 witness: the run has ended in the ValueError of synthetic.py line 30
C16_Witness ==
    /\ pc = "raised" /\ IsNone(propertyDict) /\ synthetic_collector # {}
    /\ snapfile \in DOMAIN fs

\* a run with the property at index 0 has written its output
C16_IndexZeroWitness ==
    /\ pc = "written" /\ propertyDict = Some(0) /\ synthetic_collector # {}

\* build_nc_tree has returned None for Domain, Configuration or Schema
MissingRequired ==
    /\ pc \notin {"check", "exists", "contexts", "noroot", "build"}
    /\ \E k \in 1..Len(ncs) :
          k <= Len(trees) /\ ncs[k].required /\ IsNone(trees[k])

\* the run has passed the test of the domain root without one
NoDomainRoot == ~Truthy(rootdomain) /\ pc \notin {"check", "exists", "contexts"}

\* C17: when no domain root is known, or build_nc_tree finds no DN for the
\* Domain, Configuration or Schema context, enrich_snapshot ends without
\* encoding a section, without creating an output file and without
\* changing the input, whether or not synthetic containers were collected.
C17_MissingContextAborts ==
    /\ [](NoDomainRoot =>
            /\ pc \in {"noroot", "raised"}
            /\ trees = <<>> /\ sections = <<>> /\ header = None
            /\ DOMAIN fs = {snapfile})
    /\ [](MissingRequired =>
            /\ pc \in {"synthesize", "encode", "failed", "raised"}
            /\ sections = <<>> /\ header = None
            /\ DOMAIN fs = {snapfile})
    /\ [][(NoDomainRoot \/ MissingRequired) => fs' = fs]_vars

\* C17 witness: a required tree is missing, synthetic containers were
\* collected for another naming context, and the run has ended
C17_Witness ==
    /\ MissingRequired
    /\ synthetic_collector # {}
    /\ ~IsNone(propertyDict)
    /\ pc = "raised"

\* runs ended by the returns of lines 146-148 and 235-237
C17_NoRootWitness == pc = "noroot" /\ Len(objects) > 0
C17_FailedWitness == pc = "failed" /\ MissingRequired /\ synthetic_collector = {}

\* the header's treeviewOffset is 0 or all-ones, or the 8 bytes there are
\* the placeholder magic
Placeholder(c) ==
    \/ c[1].treeviewOffset \in {0, AllOnes}
    \/ MagicAt(c, c[1].treeviewOffset) = "FF"

\* where the run puts what it adds when the header has no offset
EndOfLastObject ==
    objectOffsets[Len(objectOffsets)] + ObjectSize(Val(objects[Len(objects)]))

\* C18: on a snapshot whose treeviewOffset is 0 or all-ones, or whose
\* 8 bytes there are FF FF FF FF FF FF FF FF, check_treeview_exists reports
\* no treeview, and the run goes on to rebuild it as for a snapshot without
\* treeview: from the header's offset, or from the end of the last object
\* when there is none, and what it writes there (after the synthetic
\* records) is the treeview it encoded.  It reports a treeview only when
\* the 8 bytes at treeviewOffset are FE FF FF FF FF FF FF FF.
C18_PlaceholderRebuilt ==
    /\ [](pc = "check" =>
            /\ Placeholder(InputFile) => ~check_treeview_exists(InputFile).exists
            /\ check_treeview_exists(InputFile).exists =>
                  MagicAt(InputFile, InputFile[1].treeviewOffset) = "FE")
    /\ [][(pc = "check" /\ Placeholder(InputFile)) =>
            /\ pc' \in {"contexts", "raised"}
            /\ pc' = "raised" <=>
                  /\ InputFile[1].treeviewOffset \in {0, AllOnes}
                  /\ Len(objectOffsets) = 0
            /\ pc' = "contexts" =>
                  treeview_offset' =
                      IF InputFile[1].treeviewOffset \in {0, AllOnes}
                      THEN EndOfLastObject
                      ELSE InputFile[1].treeviewOffset ]_vars
    /\ [](pc = "written" /\ Placeholder(InputFile) =>
            \E k \in TreeviewStarts(OutputFile) :
               /\ OffsetOfPiece(OutputFile, k)
                     = treeview_offset + FileLen(synthetic_data)
               /\ SubSeq(OutputFile, k, k + Len(sections)) = EncodedTreeview)

\* C18 witness: a treeview was rebuilt and written over an allocated
\* placeholder long enough to hold one
C18_Witness ==
    /\ pc = "written"
    /\ InputFile[1].treeviewOffset \notin {0, AllOnes}
    /\ MagicAt(InputFile, InputFile[1].treeviewOffset) = "FF"
    /\ FileLen(InputFile) >= InputFile[1].treeviewOffset + 64 + 100

\* C20: after every successful run the treeviewOffset field of the output
\* file's header is the position in the output at which the new treeview
\* block begins, also when the input's field was 0 and no synthetic object
\* was created, and when it lay beyond the end of the input.
C20_HeaderPointsAtTreeview ==
    pc = "written" =>
        \E k \in TreeviewStarts(OutputFile) :
           /\ OffsetOfPiece(OutputFile, k) = OutputFile[1].treeviewOffset
           /\ SubSeq(OutputFile, k, k + Len(sections)) = EncodedTreeview

\* the node is a real object of the index with its offset of the table, or
\* a synthetic object with the index and offset of its record
Resolved(node) ==
    \/ /\ node.obj_idx \in 0..(Len(objectOffsets) - 1)
       /\ node.obj_offset = objectOffsets[node.obj_idx + 1]
       /\ objects[node.obj_idx + 1] = Some(node.dn)
    \/ \E i \in 1..Len(synthetic_objects) :
          /\ synthetic_objects[i].dn = node.dn
          /\ synthetic_objects[i].obj_idx = node.obj_idx
          /\ synthetic_objects[i].obj_offset = node.obj_offset

\* the object-record offsets a section holds: of its entries and inline
SectionOffsetsOf(words) ==
    LET entries == ScanEntries(words, 0)
    IN  {entries[e].offset : e \in 1..Len(entries)}
          \cup UNION { {entries[e].inline[i] : i \in 1..entries[e].nWithout} :
                       e \in 1..Len(entries) }

\* C23: when the sections are encoded no tree node has a negative index or
\* the offset 0; every object-record offset in a section is that of a real
\* object of the offset table or of the synthetic record of the node's DN,
\* and that record is in the output file at that offset.
C23_NoPlaceholderEncoded ==
    /\ pc \in {"encode", "write", "written"} =>
          \A k \in 1..Len(trees) :
             ~IsNone(trees[k]) =>
                \A n \in 1..Len(flatten(Val(trees[k]))) :
                   LET node == flatten(Val(trees[k]))[n]
                   IN  node.obj_idx >= 0 /\ node.obj_offset # 0 /\ Resolved(node)
    /\ Encoded =>
          \A j \in 1..Len(sections) :
             SectionOffsetsOf(sections[j]) \subseteq
                {Off64(flatten(SectionTree(j))[n]) :
                    n \in 1..Len(flatten(SectionTree(j)))}
    /\ pc = "written" =>
          \A i \in 1..Len(synthetic_objects) :
             \E k \in 1..Len(OutputFile) :
                /\ OutputFile[k] = synthetic_data[i]
                /\ OffsetOfPiece(OutputFile, k) = synthetic_objects[i].obj_offset

\* every stage before the write has ended without error: the trees of the
\* naming contexts are built, the synthetic records made for every
\* collected DN, every section and the header encoded
AllEncoded ==
    /\ Len(trees) = Len(ncs)
    /\ \A k \in 1..Len(ncs) : ncs[k].required => ~IsNone(trees[k])
    /\ Len(synthetic_objects) = Cardinality(synthetic_collector)
    /\ Len(synthetic_data) = Cardinality(synthetic_collector)
    /\ Len(sections) = Len(SectionNames(ncs, trees, 1))
    /\ \A j \in 1..Len(sections) :
          ~encode_section(SectionTree(j)).raised
          /\ sections[j] = encode_section(SectionTree(j)).words
    /\ ~IsNone(header)

\* C24: the output file is created only by the step that follows the
\* encoding of every section and of the header; a run ended by an error or
\* a return in tree building, synthesis or encoding has created no file.
C24_NoPartialOutput ==
    /\ [][fs' # fs => pc = "write" /\ AllEncoded]_vars
    /\ [](pc \in {"noroot", "failed", "raised"} =>
            get_output_filename(snapfile) \notin DOMAIN fs)

\* C24 witness: the run was ended by encode_section raising on a root
\* without children, after trees and synthetic records had been made
C24_Witness ==
    /\ pc = "raised"
    /\ synthetic_collector # {} /\ Len(synthetic_objects) > 0
    /\ \E k \in 1..Len(trees) : ChildlessRoot(k)
    /\ get_output_filename(snapfile) \notin DOMAIN fs

\* the naming contexts whose predicate the DN d satisfies
ContextsOf(d) == {k \in 1..Len(ncs) : nc_filter(ncs[k], d)}

\* the placeholders build_nc_tree makes for the k-th naming context
RequestedBy(k) ==
    LET created == BuildState(ncs[k], dncache, objectOffsets, {}).newly_created
    IN  {created[i] : i \in 1..Len(created)}

\* the object indexes of the nodes of the k-th tree
TreeIndexes(k) ==
    IF IsNone(trees[k]) THEN {}
    ELSE {flatten(Val(trees[k]))[i].obj_idx : i \in 1..Len(flatten(Val(trees[k])))}

\* the object offsets an encoded section holds, in its entries and inline
SectionObjectOffsets(words) ==
    LET entries == ScanEntries(words, 0)
    IN  {entries[i].offset : i \in 1..Len(entries)}
        \cup UNION { {entries[i].inline[x] : x \in 1..entries[i].nWithout} :
                      i \in 1..Len(entries) }

\* C28: every DN of the index that ends with the domain root satisfies
\* exactly one of the predicates of the naming contexts; an object is a node
\* of at most one tree, its offset is in at most one encoded section, and
\* no DN is made a placeholder by two naming contexts.
C28_ContextsPartition ==
    (Len(ncs) > 0 /\ pc # "contexts") =>
        /\ \A d \in IndexKeys :
              EndsWith(d, Val(rootdomain)) => Cardinality(ContextsOf(d)) = 1
        /\ \A d \in UNION {RequestedBy(k) : k \in 1..Len(ncs)} :
              Cardinality({k \in 1..Len(ncs) : d \in RequestedBy(k)}) = 1
        /\ (pc \in {"encode", "write", "written"} /\ Len(trees) = Len(ncs)) =>
              \A a, b \in 1..Len(trees) :
                 a # b => TreeIndexes(a) \cap TreeIndexes(b) = {}
        /\ Encoded =>
              \A a, b \in 1..Len(sections) :
                 a # b => SectionObjectOffsets(sections[a])
                            \cap SectionObjectOffsets(sections[b]) = {}

\* C28 witness: a snapshot with objects in all five naming contexts and a
\* missing container was written
C28_Witness ==
    /\ pc = "written" /\ Len(ncs) = 5 /\ Len(sections) = 5
    /\ synthetic_collector # {}
    /\ \A k \in 1..Len(ncs) : \E d \in IndexKeys : ContextsOf(d) = {k}

---------------------------------------------------------------------------
(* Claims about the exporters.                                              *)

WorkerEnded == wpc \in {"returned", "ValueError", "Exception"}

\* Nothing can happen any more: the producer waits in join for tasks that no
\* thread is left to mark done.
JoinHangs == ppc = "join" /\ WorkerEnded /\ unfinished_tasks > 0

\* C11: when the writer thread cannot open its output file, process() still
\* terminates in every interleaving: the producer is never left waiting in
\* wq.join() with unfinished tasks after the writer has ended, and task_done
\* is never called more often than items were put (no ValueError).
C11_OpenFailureTerminates ==
    ~can_open => (~JoinHangs /\ wpc # "ValueError")


\* every record of the snapshot encodes
AllEncode == \A i \in 1..Len(records) : encode(exporter, records[i]) = "text"

\* the first n records in the producer's order, one separator between two
RECURSIVE InOrder(_)
InOrder(n) ==
    IF n = 0 THEN <<>>
    ELSE IF n = 1 THEN <<Member(1)>>
    ELSE InOrder(n - 1) \o <<Separator, Member(n)>>

\* C26: when the file opens and every record encodes, what the writer has
\* written is at every moment the first records in the order they were put,
\* each once and with one separator between two, and process() has returned
\* only when all records and the end sentinel were consumed and the file was
\* closed.
C26_OrderAndCompletion ==
    (can_open /\ AllEncode) =>
        /\ \E n \in 0..Len(records) : fh_written = InOrder(n)
        /\ wpc \notin {"ValueError", "Exception"}
        /\ ppc = "returned" =>
              /\ fh_written = InOrder(Len(records))
              /\ wq = <<>> /\ unfinished_tasks = 0
              /\ produced = Len(records) /\ worker_data = 0
              /\ fh_out = "closed" /\ wpc = "returned"

\* C26 witness: process() has returned after the most records were written
C26_Witness ==
    /\ can_open /\ AllEncode /\ Len(records) = MaxRecords
    /\ ppc = "returned"
    /\ fh_written = InOrder(MaxRecords)

\* C30: with the file open, a record that does not encode is skipped: the
\* writer thread is not ended by the encoder's exception, it calls task_done
\* for the record, and the producer is never left in wq.join() with tasks
\* no thread will mark done; for both exporters.
C30_BadRecordSkipped ==
    can_open =>
        /\ wpc # "Exception"
        /\ wpc # "ValueError"
        /\ ~JoinHangs

\* the part of C30 that holds: the exporter that encodes with json.dumps
C30_ObjectsExporter ==
    (can_open /\ exporter = "objects") =>
        /\ wpc \notin {"Exception", "ValueError"}
        /\ ~JoinHangs
        /\ ppc = "returned" =>
              /\ wq = <<>> /\ unfinished_tasks = 0 /\ fh_out = "closed"
              /\ SelectSeq(fh_written, LAMBDA m : m.kind = "rec")
                   = [k \in 1..Cardinality({i \in 1..Len(records) : records[i] = "ok"}) |->
                        Member(CHOOSE i \in 1..Len(records) :
                            /\ records[i] = "ok"
                            /\ Cardinality({x \in 1..i : records[x] = "ok"}) = k)]

---------------------------------------------------------------------------
(* Claims about the BloodHound output.                                      *)

\* the dicts of a list, as a reader of the list sees them
DictsOf(list) == [i \in 1..Len(list) |-> ace_dicts[list[i]]]

\* C29: what a call of resolve_aces served from the cache returns is what
\* an evaluation of resolve_aces on the same arguments returns, RightName
\* included, whatever users and group-managed service accounts were
\* processed before.
C29_CachedEqualsUncached ==
    \A key \in DOMAIN resolve_aces_cache :
        DictsOf(resolve_aces_cache[key]) = resolve_aces(key[1], key[2])

\* the part of C29 that holds: a cached list differs from the evaluation
\* only in the RightName of the dicts a gMSA's loop rewrote
C29_OnlyRightNameRewritten ==
    \A key \in DOMAIN resolve_aces_cache :
        LET got == DictsOf(resolve_aces_cache[key])
            want == resolve_aces(key[1], key[2])
        IN  /\ Len(got) = Len(want)
            /\ \A i \in 1..Len(got) :
                  \/ got[i] = want[i]
                  \/ /\ got[i] = [want[i] EXCEPT !.RightName = "ReadGMSAPassword"]
                     /\ want[i].RightName # "Owner"
                     /\ \E u \in 1..Len(writeQueue_users) :
                           writeQueue_users[u].entry.gmsa = Some(key[1])

=============================================================================
